---------------------------- MODULE Spec2Model ----------------------------
(***************************************************************************)
(* A model of the SkillDelta roadmap pipeline: the Extractor               *)
(* (scripts/parse_roadmaps.py), the Cleaner (scripts/clean_roadmaps.py)    *)
(* and the two passes of the Domain Restructurer                           *)
(* (scripts/restructure_domains.py, scripts/restructure_roadmap_domains.py)*)
(*                                                                         *)
(* Python strings are TLA+ strings; a character is a string of length 1.   *)
(* Python lists and insertion-ordered dicts are sequences, Python sets are *)
(* sets.  None is the value None below.                                    *)
(***************************************************************************)
EXTENDS Integers, Sequences, FiniteSets, TLC

VARIABLES
    \* clean_roadmaps (scripts/clean_roadmaps.py)
    cl_pc,            \* where the run is: process, merge, finalize, write, done
    cl_read,          \* skills read from the input so far
    skill_ids_seen,   \* skill_ids_seen
    roles_dict,       \* roles_dict before the merge, in insertion order
    merged,           \* roles_dict after merge_duplicate_roles
    cleaned_roles,    \* cleaned_roles
    cleaned_file,     \* the document written to roadmaps_cleaned.json, or None
    \* process_roadmaps (scripts/parse_roadmaps.py)
    ex_pc,            \* where the run is: scan, merge, write, done, failed, aborted
    md_files,         \* md_files, the files find_markdown_files returned
    ex_next,          \* the position in md_files of the next file of the scan
    commit_hash,      \* get_git_commit_hash()
    ex_roles_dict,    \* roles_dict, in insertion order
    content_files_by_role,
    PARSE_WARNINGS,
    raw_file,         \* the document written to roadmaps.json, or None
    \* the links of one list item, through the Extractor and the Cleaner
    lk_pc,            \* start, extracted, cleaned, again, none
    lk_item,          \* the list item (li)
    lk_commit,        \* the commit hash of the run
    lk_links,         \* the links parse_list_item gives the skill
    lk_cleaned,       \* the links the Cleaner keeps of them
    lk_again,         \* the Cleaner's loop applied to its own links
    \* normalize_skill_name (scripts/clean_roadmaps.py)
    nm_pc,            \* start, once, twice
    nm_input,         \* the skill name
    nm_once,          \* normalize_skill_name(nm_input)
    nm_twice,         \* normalize_skill_name(nm_once)
    \* find_best_roadmap_domain (scripts/restructure_roadmap_domains.py)
    sc_pc,            \* start, scored
    sc_skill,         \* the skill: name, keywords and links
    sc_scores,        \* domain_scores, in the order of the domain table
    sc_best,          \* the domain returned, or None
    \* the two passes of the Domain Restructurer
    dm_pc,            \* start, pass1, pass2
    dm_input,         \* the roles of the cleaned document
    dm_pass1,         \* the domains written to roadmaps_domains.json
    dm_pass2,         \* the domains written to roadmaps_roadmap_based.json
    \* the write of an output file (json.dump into open(path, 'w'))
    wr_pc,            \* start, open, closed, failed
    wr_doc,           \* output_data: the roles of the document to write
    wr_old,           \* the content of the output file before the run
    wr_chunks,        \* the chunks json.dump has still to write
    wr_fails_at,      \* the chunk the write of which raises, 0 for none
    wr_file,          \* the content of the output file
    \* merge_similar_skills (scripts/restructure_roadmap_domains.py)
    mg_pc,            \* start, merged
    mg_skills,        \* the skills assigned to one domain
    mg_merged,        \* the records merge_similar_skills returns
    \* create_role_skill_structure (scripts/create_role_skill_structure.py)
    st_pc,            \* start, process, write, done, failed
    st_tree,          \* the markdown files below developer-roadmap
    st_raw,           \* the file data/roadmaps.json, the output of the Extractor
    st_runs,          \* the runs of the script so far, this one included
    st_data,          \* data['roles'] as the run loaded it
    st_next,          \* the position in st_data of the next role
    st_structure,     \* structure, roles and skills in insertion order
    st_prev,          \* the output file as the run found it
    st_output,        \* the file data/roadmaps_role_skill.json
    \* two calls of detect_resource_type (scripts/create_role_skill_structure.py)
    rt_pc,            \* start, first, second
    rt_url,           \* url, the same in both calls
    rt_title,         \* title, the same in both calls
    rt_files,         \* the file at content_file_path of the first and of the second call
    rt_types,         \* the types returned so far
    \* main (scripts/process_linkedin_jobs.py)
    jb_pc,            \* start, csv, sample, pad, written
    jb_db,            \* the database file: whether it exists and the rows its query returns
    jb_csv,           \* the CSV file: whether it exists and its rows
    jb_limit,         \* args.limit, 0 for None
    jb_jobs,          \* jobs
    jb_output,        \* the file data/linkedin_jobs_processed.json
    \* upload_resume (resume-parser/app.py), one request after the other
    up_pc,            \* waiting, extract, match, expand, proficiency, compare_expand, compare, save
    up_jobs_file,     \* LINKEDIN_JOBS_FILE
    up_request,       \* the request being handled
    up_calls,         \* the calls of client.chat.completions.create made for the request
    up_skills,        \* extracted_skills
    up_matched,       \* matched_skills
    up_proficiency,   \* skills_with_proficiency
    up_job,           \* job_for_proficiency
    up_expanded,      \* expanded_description of compare_resume_to_job_ai
    up_job_match,     \* job_match_data
    up_response,      \* the response to the last request
    \* the log of resumes of resume-parser/app.py (load_existing_resumes, save_resume_data)
    lg_file,          \* OUTPUT_JSON_FILE: whether it exists and parses, and its 'resumes'
    lg_pc,            \* where each thread of the server is in save_resume_data
    lg_data,          \* existing_data['resumes'] of each thread, of ids
    lg_next,          \* the resumes that arrived so far
    lg_done,          \* ids of the resumes /upload answered with success, in order
    \* the cache of roadmap data of resume-parser/app.py (extract_roadmap_skill_list)
    rc_pc,            \* started (the module is imported) or serving
    rc_file,          \* ROADMAP_SKILLS_FILE: its version, 0 where it cannot be loaded
    rc_cache,         \* _ROADMAP_SKILL_LIST_CACHE: the version held, 0 for None
    rc_reads,         \* how often the file was opened, and in which state of the process
    rc_returned,      \* the values extract_roadmap_skill_list returned so far
    \* pass 1 on the Cleaner output of one role (scripts/restructure_domains.py)
    ct_pc,            \* start or placed
    ct_input,         \* the roles of the Cleaner output
    ct_output,        \* the domains of the pass-1 output
    \* extract_skill_from_name on one skill text after the other (scripts/create_role_skill_structure.py)
    sn_pc,            \* naming or done
    sn_role,          \* the name of the role of the skills
    sn_next,          \* the position of the next skill text
    sn_name,          \* the skill text named last
    sn_skill,         \* what extract_skill_from_name returned for it
    sn_returned,      \* all it returned so far
    \* the resource that create_role_skill_structure makes of one link (scripts/create_role_skill_structure.py)
    rs_pc,            \* start or typed
    rs_link,          \* the link of the skill
    rs_skill,         \* the name of the skill
    rs_file,          \* the source file of the role
    rs_resource       \* the resource made of the link

cleanerVars == <<cl_pc, cl_read, skill_ids_seen, roles_dict, merged, cleaned_roles, cleaned_file>>

extractorVars ==
    <<ex_pc, md_files, ex_next, commit_hash, ex_roles_dict, content_files_by_role,
      PARSE_WARNINGS, raw_file>>

linkVars == <<lk_pc, lk_item, lk_commit, lk_links, lk_cleaned, lk_again>>

normalizeVars == <<nm_pc, nm_input, nm_once, nm_twice>>

scorerVars == <<sc_pc, sc_skill, sc_scores, sc_best>>

domainVars == <<dm_pc, dm_input, dm_pass1, dm_pass2>>

writerVars == <<wr_pc, wr_doc, wr_old, wr_chunks, wr_fails_at, wr_file>>

mergeVars == <<mg_pc, mg_skills, mg_merged>>

resourceVars == <<rt_pc, rt_url, rt_title, rt_files, rt_types>>

structurerVars ==
    <<st_pc, st_tree, st_raw, st_runs, st_data, st_next, st_structure, st_prev, st_output>>

jobVars == <<jb_pc, jb_db, jb_csv, jb_limit, jb_jobs, jb_output>>

uploadVars ==
    <<up_pc, up_jobs_file, up_request, up_calls, up_skills, up_matched, up_proficiency, up_job,
      up_expanded, up_job_match, up_response>>

logVars == <<lg_file, lg_pc, lg_data, lg_next, lg_done>>

cacheVars == <<rc_pc, rc_file, rc_cache, rc_reads, rc_returned>>

categoryVars == <<ct_pc, ct_input, ct_output>>

skillNameVars == <<sn_pc, sn_role, sn_next, sn_name, sn_skill, sn_returned>>

resourceTypeVars == <<rs_pc, rs_link, rs_skill, rs_file, rs_resource>>

vars ==
    <<cleanerVars, extractorVars, linkVars, normalizeVars, scorerVars, domainVars, writerVars,
      mergeVars, structurerVars, resourceVars, jobVars, uploadVars, logVars, cacheVars,
      categoryVars, skillNameVars, resourceTypeVars>>

notCleanerVars ==
    <<extractorVars, linkVars, normalizeVars, scorerVars, domainVars, writerVars, mergeVars,
      structurerVars, resourceVars, jobVars, uploadVars, logVars, cacheVars, categoryVars,
      skillNameVars, resourceTypeVars>>

notExtractorVars ==
    <<cleanerVars, linkVars, normalizeVars, scorerVars, domainVars, writerVars, mergeVars,
      structurerVars, resourceVars, jobVars, uploadVars, logVars, cacheVars, categoryVars,
      skillNameVars, resourceTypeVars>>

notLinksVars ==
    <<cleanerVars, extractorVars, normalizeVars, scorerVars, domainVars, writerVars, mergeVars,
      structurerVars, resourceVars, jobVars, uploadVars, logVars, cacheVars, categoryVars,
      skillNameVars, resourceTypeVars>>

notNormalizeVars ==
    <<cleanerVars, extractorVars, linkVars, scorerVars, domainVars, writerVars, mergeVars,
      structurerVars, resourceVars, jobVars, uploadVars, logVars, cacheVars, categoryVars,
      skillNameVars, resourceTypeVars>>

notScorerVars ==
    <<cleanerVars, extractorVars, linkVars, normalizeVars, domainVars, writerVars, mergeVars,
      structurerVars, resourceVars, jobVars, uploadVars, logVars, cacheVars, categoryVars,
      skillNameVars, resourceTypeVars>>

notDomainsVars ==
    <<cleanerVars, extractorVars, linkVars, normalizeVars, scorerVars, writerVars, mergeVars,
      structurerVars, resourceVars, jobVars, uploadVars, logVars, cacheVars, categoryVars,
      skillNameVars, resourceTypeVars>>

notWriterVars ==
    <<cleanerVars, extractorVars, linkVars, normalizeVars, scorerVars, domainVars, mergeVars,
      structurerVars, resourceVars, jobVars, uploadVars, logVars, cacheVars, categoryVars,
      skillNameVars, resourceTypeVars>>

notMergeVars ==
    <<cleanerVars, extractorVars, linkVars, normalizeVars, scorerVars, domainVars, writerVars,
      structurerVars, resourceVars, jobVars, uploadVars, logVars, cacheVars, categoryVars,
      skillNameVars, resourceTypeVars>>

notStructurerVars ==
    <<cleanerVars, extractorVars, linkVars, normalizeVars, scorerVars, domainVars, writerVars,
      mergeVars, resourceVars, jobVars, uploadVars, logVars, cacheVars, categoryVars,
      skillNameVars, resourceTypeVars>>

notResourceVars ==
    <<cleanerVars, extractorVars, linkVars, normalizeVars, scorerVars, domainVars, writerVars,
      mergeVars, structurerVars, jobVars, uploadVars, logVars, cacheVars, categoryVars,
      skillNameVars, resourceTypeVars>>

notJobsVars ==
    <<cleanerVars, extractorVars, linkVars, normalizeVars, scorerVars, domainVars, writerVars,
      mergeVars, structurerVars, resourceVars, uploadVars, logVars, cacheVars, categoryVars,
      skillNameVars, resourceTypeVars>>

notUploadVars ==
    <<cleanerVars, extractorVars, linkVars, normalizeVars, scorerVars, domainVars, writerVars,
      mergeVars, structurerVars, resourceVars, jobVars, logVars, cacheVars, categoryVars,
      skillNameVars, resourceTypeVars>>

notLogVars ==
    <<cleanerVars, extractorVars, linkVars, normalizeVars, scorerVars, domainVars, writerVars,
      mergeVars, structurerVars, resourceVars, jobVars, uploadVars, cacheVars, categoryVars,
      skillNameVars, resourceTypeVars>>

notCacheVars ==
    <<cleanerVars, extractorVars, linkVars, normalizeVars, scorerVars, domainVars, writerVars,
      mergeVars, structurerVars, resourceVars, jobVars, uploadVars, logVars, categoryVars,
      skillNameVars, resourceTypeVars>>

notCategoryVars ==
    <<cleanerVars, extractorVars, linkVars, normalizeVars, scorerVars, domainVars, writerVars,
      mergeVars, structurerVars, resourceVars, jobVars, uploadVars, logVars, cacheVars,
      skillNameVars, resourceTypeVars>>

notSkillNameVars ==
    <<cleanerVars, extractorVars, linkVars, normalizeVars, scorerVars, domainVars, writerVars,
      mergeVars, structurerVars, resourceVars, jobVars, uploadVars, logVars, cacheVars,
      categoryVars, resourceTypeVars>>

notResourceTypeVars ==
    <<cleanerVars, extractorVars, linkVars, normalizeVars, scorerVars, domainVars, writerVars,
      mergeVars, structurerVars, resourceVars, jobVars, uploadVars, logVars, cacheVars,
      categoryVars, skillNameVars>>

None == "<None>"

\* the Cleaner before a run, and in the specifications that do not run it
CleanerIdle ==
    /\ cl_pc = "idle"
    /\ cl_read = 0
    /\ skill_ids_seen = {}
    /\ roles_dict = <<>>
    /\ merged = <<>>
    /\ cleaned_roles = <<>>
    /\ cleaned_file = None

\* the Extractor in the specifications that do not run it
ExtractorIdle ==
    /\ ex_pc = "idle"
    /\ md_files = <<>>
    /\ ex_next = 1
    /\ commit_hash = "unknown"
    /\ ex_roles_dict = <<>>
    /\ content_files_by_role = <<>>
    /\ PARSE_WARNINGS = <<>>
    /\ raw_file = None

LinksIdle ==
    /\ lk_pc = "idle"
    /\ lk_item = <<>>
    /\ lk_commit = "unknown"
    /\ lk_links = <<>>
    /\ lk_cleaned = <<>>
    /\ lk_again = <<>>

NormalizeIdle ==
    /\ nm_pc = "idle"
    /\ nm_input = ""
    /\ nm_once = ""
    /\ nm_twice = ""

ScorerIdle ==
    /\ sc_pc = "idle"
    /\ sc_skill = <<>>
    /\ sc_scores = <<>>
    /\ sc_best = None

DomainsIdle ==
    /\ dm_pc = "idle"
    /\ dm_input = <<>>
    /\ dm_pass1 = <<>>
    /\ dm_pass2 = <<>>

WriterIdle ==
    /\ wr_pc = "idle"
    /\ wr_doc = <<>>
    /\ wr_old = ""
    /\ wr_chunks = <<>>
    /\ wr_fails_at = 0
    /\ wr_file = ""

MergeIdle ==
    /\ mg_pc = "idle"
    /\ mg_skills = <<>>
    /\ mg_merged = <<>>

\* a file that does not exist
NoJson == [exists |-> FALSE, roles |-> <<>>]

ResourceIdle ==
    /\ rt_pc = "idle"
    /\ rt_url = ""
    /\ rt_title = ""
    /\ rt_files = <<>>
    /\ rt_types = <<>>

StructurerIdle ==
    /\ st_pc = "idle"
    /\ st_tree = <<>>
    /\ st_raw = NoJson
    /\ st_runs = 0
    /\ st_data = <<>>
    /\ st_next = 1
    /\ st_structure = <<>>
    /\ st_prev = NoJson
    /\ st_output = NoJson

\* a job source that does not exist
NoRows == [exists |-> FALSE, rows |-> <<>>]

\* an output file that does not exist
NoJobsFile == [exists |-> FALSE, jobs |-> <<>>]

JobsIdle ==
    /\ jb_pc = "idle"
    /\ jb_db = NoRows
    /\ jb_csv = NoRows
    /\ jb_limit = 0
    /\ jb_jobs = <<>>
    /\ jb_output = NoJobsFile

\* no request, and no response
NoRequest == [kind |-> "none"]
NoResponse == [status |-> 0]

UploadIdle ==
    /\ up_pc = "idle"
    /\ up_jobs_file = NoJobsFile
    /\ up_request = NoRequest
    /\ up_calls = <<>>
    /\ up_skills = <<>>
    /\ up_matched = <<>>
    /\ up_proficiency = <<>>
    /\ up_job = [status |-> "none"]
    /\ up_expanded = ""
    /\ up_job_match = [status |-> "none"]
    /\ up_response = NoResponse

\* a log file that does not exist
NoLog == [exists |-> FALSE, parses |-> FALSE, resumes |-> <<>>]

LogIdle ==
    /\ lg_file = NoLog
    /\ lg_pc = <<>>
    /\ lg_data = <<>>
    /\ lg_next = 0
    /\ lg_done = <<>>

CacheIdle ==
    /\ rc_pc = "idle"
    /\ rc_file = 0
    /\ rc_cache = 0
    /\ rc_reads = <<>>
    /\ rc_returned = <<>>

CategoryIdle ==
    /\ ct_pc = "idle"
    /\ ct_input = <<>>
    /\ ct_output = <<>>

SkillNameIdle ==
    /\ sn_pc = "idle"
    /\ sn_role = ""
    /\ sn_next = 0
    /\ sn_name = ""
    /\ sn_skill = ""
    /\ sn_returned = {}

ResourceTypeIdle ==
    /\ rs_pc = "idle"
    /\ rs_link = <<>>
    /\ rs_skill = ""
    /\ rs_file = <<>>
    /\ rs_resource = <<>>

\* every component but one is idle in the specification of that one
NotCleanerIdle ==
    ExtractorIdle /\ LinksIdle /\ NormalizeIdle /\ ScorerIdle /\ DomainsIdle /\ WriterIdle /\
    MergeIdle /\ StructurerIdle /\ ResourceIdle /\ JobsIdle /\ UploadIdle /\ LogIdle /\
    CacheIdle /\ CategoryIdle /\ SkillNameIdle /\ ResourceTypeIdle

NotExtractorIdle ==
    CleanerIdle /\ LinksIdle /\ NormalizeIdle /\ ScorerIdle /\ DomainsIdle /\ WriterIdle /\
    MergeIdle /\ StructurerIdle /\ ResourceIdle /\ JobsIdle /\ UploadIdle /\ LogIdle /\
    CacheIdle /\ CategoryIdle /\ SkillNameIdle /\ ResourceTypeIdle

NotLinksIdle ==
    CleanerIdle /\ ExtractorIdle /\ NormalizeIdle /\ ScorerIdle /\ DomainsIdle /\ WriterIdle /\
    MergeIdle /\ StructurerIdle /\ ResourceIdle /\ JobsIdle /\ UploadIdle /\ LogIdle /\
    CacheIdle /\ CategoryIdle /\ SkillNameIdle /\ ResourceTypeIdle

NotNormalizeIdle ==
    CleanerIdle /\ ExtractorIdle /\ LinksIdle /\ ScorerIdle /\ DomainsIdle /\ WriterIdle /\
    MergeIdle /\ StructurerIdle /\ ResourceIdle /\ JobsIdle /\ UploadIdle /\ LogIdle /\
    CacheIdle /\ CategoryIdle /\ SkillNameIdle /\ ResourceTypeIdle

NotScorerIdle ==
    CleanerIdle /\ ExtractorIdle /\ LinksIdle /\ NormalizeIdle /\ DomainsIdle /\ WriterIdle /\
    MergeIdle /\ StructurerIdle /\ ResourceIdle /\ JobsIdle /\ UploadIdle /\ LogIdle /\
    CacheIdle /\ CategoryIdle /\ SkillNameIdle /\ ResourceTypeIdle

NotDomainsIdle ==
    CleanerIdle /\ ExtractorIdle /\ LinksIdle /\ NormalizeIdle /\ ScorerIdle /\ WriterIdle /\
    MergeIdle /\ StructurerIdle /\ ResourceIdle /\ JobsIdle /\ UploadIdle /\ LogIdle /\
    CacheIdle /\ CategoryIdle /\ SkillNameIdle /\ ResourceTypeIdle

NotWriterIdle ==
    CleanerIdle /\ ExtractorIdle /\ LinksIdle /\ NormalizeIdle /\ ScorerIdle /\ DomainsIdle /\
    MergeIdle /\ StructurerIdle /\ ResourceIdle /\ JobsIdle /\ UploadIdle /\ LogIdle /\
    CacheIdle /\ CategoryIdle /\ SkillNameIdle /\ ResourceTypeIdle

NotMergeIdle ==
    CleanerIdle /\ ExtractorIdle /\ LinksIdle /\ NormalizeIdle /\ ScorerIdle /\ DomainsIdle /\
    WriterIdle /\ StructurerIdle /\ ResourceIdle /\ JobsIdle /\ UploadIdle /\ LogIdle /\
    CacheIdle /\ CategoryIdle /\ SkillNameIdle /\ ResourceTypeIdle

NotStructurerIdle ==
    CleanerIdle /\ ExtractorIdle /\ LinksIdle /\ NormalizeIdle /\ ScorerIdle /\ DomainsIdle /\
    WriterIdle /\ MergeIdle /\ ResourceIdle /\ JobsIdle /\ UploadIdle /\ LogIdle /\
    CacheIdle /\ CategoryIdle /\ SkillNameIdle /\ ResourceTypeIdle

NotResourceIdle ==
    CleanerIdle /\ ExtractorIdle /\ LinksIdle /\ NormalizeIdle /\ ScorerIdle /\ DomainsIdle /\
    WriterIdle /\ MergeIdle /\ StructurerIdle /\ JobsIdle /\ UploadIdle /\ LogIdle /\
    CacheIdle /\ CategoryIdle /\ SkillNameIdle /\ ResourceTypeIdle

NotJobsIdle ==
    CleanerIdle /\ ExtractorIdle /\ LinksIdle /\ NormalizeIdle /\ ScorerIdle /\ DomainsIdle /\
    WriterIdle /\ MergeIdle /\ StructurerIdle /\ ResourceIdle /\ UploadIdle /\ LogIdle /\
    CacheIdle /\ CategoryIdle /\ SkillNameIdle /\ ResourceTypeIdle

NotUploadIdle ==
    CleanerIdle /\ ExtractorIdle /\ LinksIdle /\ NormalizeIdle /\ ScorerIdle /\ DomainsIdle /\
    WriterIdle /\ MergeIdle /\ StructurerIdle /\ ResourceIdle /\ JobsIdle /\ LogIdle /\
    CacheIdle /\ CategoryIdle /\ SkillNameIdle /\ ResourceTypeIdle

NotLogIdle ==
    CleanerIdle /\ ExtractorIdle /\ LinksIdle /\ NormalizeIdle /\ ScorerIdle /\ DomainsIdle /\
    WriterIdle /\ MergeIdle /\ StructurerIdle /\ ResourceIdle /\ JobsIdle /\ UploadIdle /\
    CacheIdle /\ CategoryIdle /\ SkillNameIdle /\ ResourceTypeIdle

NotCacheIdle ==
    CleanerIdle /\ ExtractorIdle /\ LinksIdle /\ NormalizeIdle /\ ScorerIdle /\ DomainsIdle /\
    WriterIdle /\ MergeIdle /\ StructurerIdle /\ ResourceIdle /\ JobsIdle /\ UploadIdle /\
    LogIdle /\ CategoryIdle /\ SkillNameIdle /\ ResourceTypeIdle

NotCategoryIdle ==
    CleanerIdle /\ ExtractorIdle /\ LinksIdle /\ NormalizeIdle /\ ScorerIdle /\ DomainsIdle /\
    WriterIdle /\ MergeIdle /\ StructurerIdle /\ ResourceIdle /\ JobsIdle /\ UploadIdle /\
    LogIdle /\ CacheIdle /\ SkillNameIdle /\ ResourceTypeIdle

NotSkillNameIdle ==
    CleanerIdle /\ ExtractorIdle /\ LinksIdle /\ NormalizeIdle /\ ScorerIdle /\ DomainsIdle /\
    WriterIdle /\ MergeIdle /\ StructurerIdle /\ ResourceIdle /\ JobsIdle /\ UploadIdle /\
    LogIdle /\ CacheIdle /\ CategoryIdle /\ ResourceTypeIdle

NotResourceTypeIdle ==
    CleanerIdle /\ ExtractorIdle /\ LinksIdle /\ NormalizeIdle /\ ScorerIdle /\ DomainsIdle /\
    WriterIdle /\ MergeIdle /\ StructurerIdle /\ ResourceIdle /\ JobsIdle /\ UploadIdle /\
    LogIdle /\ CacheIdle /\ CategoryIdle /\ SkillNameIdle

(***************************************************************************)
(* Bounds of the model.                                                    *)
(***************************************************************************)
\* skills read by one run of the Cleaner
MaxSkills == 3

(***************************************************************************)
(* Python str primitives.                                                  *)
(***************************************************************************)
UpperChars == "ABCDEFGHIJKLMNOPQRSTUVWXYZ"
LowerChars == "abcdefghijklmnopqrstuvwxyz"
DigitChars == "0123456789"
\* the characters of the model's inputs, in code point order (for str <)
CodePoints == " !#$&()+,-./0123456789:;?@ABCDEFGHIJKLMNOPQRSTUVWXYZ[]_abcdefghijklmnopqrstuvwxyz"

ch(s, i) == SubSeq(s, i, i)

CharIn(c, chars) == \E i \in 1..Len(chars) : ch(chars, i) = c

IndexIn(c, chars) == CHOOSE i \in 1..Len(chars) : ch(chars, i) = c

IsUpper(c) == CharIn(c, UpperChars)

IsLower(c) == CharIn(c, LowerChars)

IsAlpha(c) == IsUpper(c) \/ IsLower(c)

\* the characters regex \w matches
WordChars ==
    {ch(UpperChars, i) : i \in 1..Len(UpperChars)} \cup {ch(LowerChars, i) : i \in 1..Len(LowerChars)}
        \cup {ch(DigitChars, i) : i \in 1..Len(DigitChars)} \cup {"_"}

\* regex \w
IsWordChar(c) == c \in WordChars

\* regex \s and str.split(): the model's inputs hold no line break
IsSpace(c) == c = " "

lower_char(c) == IF IsUpper(c) THEN ch(LowerChars, IndexIn(c, UpperChars)) ELSE c

upper_char(c) == IF IsLower(c) THEN ch(UpperChars, IndexIn(c, LowerChars)) ELSE c

RECURSIVE lower(_)
lower(s) == IF s = "" THEN "" ELSE lower_char(Head(s)) \o lower(Tail(s))

\* str.capitalize(): first character upper, the rest lower
capitalize(s) == IF s = "" THEN "" ELSE upper_char(Head(s)) \o lower(Tail(s))

\* str.title(): a cased character is upper after an uncased one, else lower
RECURSIVE TitleFrom(_, _)
TitleFrom(s, prevCased) ==
    IF s = "" THEN ""
    ELSE LET c == Head(s) IN
         (IF prevCased THEN lower_char(c) ELSE upper_char(c))
             \o TitleFrom(Tail(s), IsAlpha(c))

title(s) == TitleFrom(s, FALSE)

startswith(s, p) == Len(p) <= Len(s) /\ SubSeq(s, 1, Len(p)) = p

endswith(s, p) == Len(p) <= Len(s) /\ SubSeq(s, Len(s) - Len(p) + 1, Len(s)) = p

\* Python's  t in s  on strings
contains(s, t) == \E i \in 0..(Len(s) - Len(t)) : SubSeq(s, i + 1, i + Len(t)) = t

\* str.strip(chars) / rstrip / lstrip
RECURSIVE rstrip(_, _)
rstrip(s, chars) ==
    IF s # "" /\ CharIn(ch(s, Len(s)), chars) THEN rstrip(SubSeq(s, 1, Len(s) - 1), chars)
    ELSE s

RECURSIVE lstrip(_, _)
lstrip(s, chars) ==
    IF s # "" /\ CharIn(Head(s), chars) THEN lstrip(Tail(s), chars) ELSE s

strip(s, chars) == lstrip(rstrip(s, chars), chars)

\* str.split(): the words between runs of whitespace
RECURSIVE SplitFrom(_, _, _)
SplitFrom(s, cur, acc) ==
    IF s = "" THEN (IF cur = "" THEN acc ELSE Append(acc, cur))
    ELSE IF IsSpace(Head(s))
         THEN SplitFrom(Tail(s), "", IF cur = "" THEN acc ELSE Append(acc, cur))
         ELSE SplitFrom(Tail(s), cur \o Head(s), acc)

split(s) == SplitFrom(s, "", <<>>)

\* sep.join(words)
RECURSIVE join(_, _)
join(sep, words) ==
    IF words = <<>> THEN ""
    ELSE IF Len(words) = 1 THEN words[1]
    ELSE words[1] \o sep \o join(sep, Tail(words))

\* Python's  a < b  on strings (code point order)
RECURSIVE StrLess(_, _)
StrLess(a, b) ==
    IF b = "" THEN FALSE
    ELSE IF a = "" THEN TRUE
    ELSE IF Head(a) = Head(b) THEN StrLess(Tail(a), Tail(b))
    ELSE IndexIn(Head(a), CodePoints) < IndexIn(Head(b), CodePoints)

Range(s) == {s[i] : i \in 1..Len(s)}

\* sorted(list(set)): the strings of a set in code point order
RECURSIVE SortedStrings(_)
SortedStrings(set) ==
    IF set = {} THEN <<>>
    ELSE LET m == CHOOSE x \in set : \A y \in set : ~StrLess(y, x) IN
         <<m>> \o SortedStrings(set \ {m})


(***************************************************************************)
(* The Cleaner's pure functions (scripts/clean_roadmaps.py).               *)
(***************************************************************************)
STOP_WORDS ==
    {"a", "an", "and", "are", "as", "at", "be", "by", "for", "from",
     "has", "he", "in", "is", "it", "its", "of", "on", "that", "the",
     "to", "was", "will", "with", "this", "these", "those"}

\* re.sub(r'[^\w\s-]', '', text)
RECURSIVE RemoveNonSlug(_)
RemoveNonSlug(s) ==
    IF s = "" THEN ""
    ELSE LET c == Head(s) IN
         (IF IsWordChar(c) \/ IsSpace(c) \/ c = "-" THEN c ELSE "")
             \o RemoveNonSlug(Tail(s))

\* re.sub(r'[-\s]+', '-', text)
RECURSIVE CollapseDash(_, _)
CollapseDash(s, inRun) ==
    IF s = "" THEN ""
    ELSE LET c == Head(s) IN
         IF c = "-" \/ IsSpace(c)
         THEN (IF inRun THEN "" ELSE "-") \o CollapseDash(Tail(s), TRUE)
         ELSE c \o CollapseDash(Tail(s), FALSE)

slugify(text) == strip(CollapseDash(RemoveNonSlug(lower(text)), FALSE), "-")

SkillPrefixes ==
    <<"learn", "understand", "master", "explore", "study", "get started with",
      "introduction to", "guide to", "tutorial on">>

SkillSuffixes ==
    <<"tutorial", "guide", "course", "learning", "basics", "advanced", "introduction">>

\* re.sub(r'^(learn|...|tutorial on)\s+', '', name)
StripSkillPrefix(name) ==
    LET hits == {i \in 1..Len(SkillPrefixes) :
                    /\ startswith(name, SkillPrefixes[i])
                    /\ Len(name) > Len(SkillPrefixes[i])
                    /\ IsSpace(ch(name, Len(SkillPrefixes[i]) + 1))}
    IN  IF hits = {} THEN name
        ELSE LET p == SkillPrefixes[CHOOSE i \in hits : \A j \in hits : i <= j]
             IN  lstrip(SubSeq(name, Len(p) + 1, Len(name)), " ")

\* re.sub(r'\s+(tutorial|...|introduction)$', '', name)
StripSkillSuffix(name) ==
    LET hits == {i \in 1..Len(SkillSuffixes) :
                    /\ endswith(name, SkillSuffixes[i])
                    /\ Len(name) > Len(SkillSuffixes[i])
                    /\ IsSpace(ch(name, Len(name) - Len(SkillSuffixes[i])))}
    IN  IF hits = {} THEN name
        ELSE LET w == SkillSuffixes[CHOOSE i \in hits : \A j \in hits : i <= j]
             IN  rstrip(SubSeq(name, 1, Len(name) - Len(w)), " ")

\* re.sub(r'[^\w\s-]', ' ', name)
RECURSIVE PunctToSpace(_)
PunctToSpace(s) ==
    IF s = "" THEN ""
    ELSE LET c == Head(s) IN
         (IF IsWordChar(c) \/ IsSpace(c) \/ c = "-" THEN c ELSE " ")
             \o PunctToSpace(Tail(s))

KeepSkillWord(w) == w \notin STOP_WORDS /\ Len(w) > 1

normalize_skill_name(name) ==
    IF name = "" THEN ""
    ELSE join(" ", SelectSeq(split(PunctToSpace(StripSkillSuffix(StripSkillPrefix(lower(name))))),
                             KeepSkillWord))

\* urlparse(url).netloc of an http(s) URL: from after "//" to the first of / ? #
RECURSIVE UpToDelim(_)
UpToDelim(s) ==
    IF s = "" \/ CharIn(Head(s), "/?#") THEN "" ELSE Head(s) \o UpToDelim(Tail(s))

netloc(url) ==
    LET n == IF startswith(url, "https://") THEN 8 ELSE 7
    IN  UpToDelim(SubSeq(url, n + 1, Len(url)))

\* normalize_url of clean_roadmaps.py
clean_normalize_url(url) ==
    IF url = "" \/ url = None THEN None
    ELSE LET u == rstrip(strip(url, " "), ".,;:!?)") IN
         IF u = "" THEN None
         ELSE IF ~(startswith(u, "http://") \/ startswith(u, "https://")) THEN None
         ELSE IF netloc(u) = "" THEN None
         ELSE u

\* [A-Z][a-z]+
IsCapWord(w) ==
    Len(w) >= 2 /\ IsUpper(Head(w)) /\ \A i \in 2..Len(w) : IsLower(ch(w, i))

\* re.sub(r'\s+(in|for|with|using|with|via)\s+[A-Z][a-z]+$', '', role_name), on the
\* words of a name that has no leading or trailing whitespace
StripRolePrep(words) ==
    LET n == Len(words) IN
    IF n >= 3 /\ IsCapWord(words[n]) /\ words[n - 1] \in {"in", "for", "with", "using", "via"}
    THEN SubSeq(words, 1, n - 2) ELSE words

\* re.sub(r'\s+-\s+[A-Z][a-z]+$', '', role_name)
StripRoleDash(words) ==
    LET n == Len(words) IN
    IF n >= 3 /\ IsCapWord(words[n]) /\ words[n - 1] = "-"
    THEN SubSeq(words, 1, n - 2) ELSE words

RoleWord(w) ==
    IF lower(w) \in {"and", "or", "of", "the", "for"} THEN lower(w) ELSE capitalize(w)

normalize_role_name(role_name) ==
    IF role_name = "" THEN ""
    ELSE LET words == StripRoleDash(StripRolePrep(split(role_name)))
             cased == [i \in 1..Len(words) |->
                          IF i = 1 THEN capitalize(RoleWord(words[1])) ELSE RoleWord(words[i])]
         IN  join(" ", cased)


SKILL_SYNONYMS ==
    << [abbrev |-> "oop", expansions |-> <<"object-oriented programming", "object oriented programming">>],
       [abbrev |-> "fp", expansions |-> <<"functional programming">>],
       [abbrev |-> "api", expansions |-> <<"application programming interface">>],
       [abbrev |-> "rest", expansions |-> <<"representational state transfer", "restful">>],
       [abbrev |-> "graphql", expansions |-> <<"graph ql", "graph query language">>],
       [abbrev |-> "sql", expansions |-> <<"structured query language">>],
       [abbrev |-> "nosql", expansions |-> <<"not only sql">>],
       [abbrev |-> "ci/cd", expansions |-> <<"continuous integration", "continuous deployment", "continuous delivery">>],
       [abbrev |-> "devops", expansions |-> <<"development operations">>],
       [abbrev |-> "ui", expansions |-> <<"user interface">>],
       [abbrev |-> "ux", expansions |-> <<"user experience">>],
       [abbrev |-> "html", expansions |-> <<"hypertext markup language">>],
       [abbrev |-> "css", expansions |-> <<"cascading style sheets">>],
       [abbrev |-> "js", expansions |-> <<"javascript">>],
       [abbrev |-> "ts", expansions |-> <<"typescript">>],
       [abbrev |-> "react", expansions |-> <<"reactjs", "react.js">>],
       [abbrev |-> "vue", expansions |-> <<"vuejs", "vue.js">>],
       [abbrev |-> "angular", expansions |-> <<"angularjs", "angular.js">>],
       [abbrev |-> "node", expansions |-> <<"nodejs", "node.js">>],
       [abbrev |-> "aws", expansions |-> <<"amazon web services">>],
       [abbrev |-> "gcp", expansions |-> <<"google cloud platform">>],
       [abbrev |-> "azure", expansions |-> <<"microsoft azure">>] >>

\* lines 101-107: the expansions of an abbreviation the name holds, and the
\* abbreviation of an expansion of which the name holds a word
SynonymKeywords(skill_lower) ==
    UNION { (IF contains(skill_lower, SKILL_SYNONYMS[i].abbrev)
             THEN Range(SKILL_SYNONYMS[i].expansions) ELSE {})
            \cup
            (IF \E e \in Range(SKILL_SYNONYMS[i].expansions) :
                   \E w \in Range(split(e)) : contains(skill_lower, w)
             THEN {SKILL_SYNONYMS[i].abbrev} ELSE {})
          : i \in 1..Len(SKILL_SYNONYMS) }

\* the maximal runs of word characters of s
RECURSIVE WordRunsFrom(_, _, _)
WordRunsFrom(s, cur, acc) ==
    IF s = "" THEN (IF cur = "" THEN acc ELSE acc \cup {cur})
    ELSE IF IsWordChar(Head(s)) THEN WordRunsFrom(Tail(s), cur \o Head(s), acc)
    ELSE WordRunsFrom(Tail(s), "", IF cur = "" THEN acc ELSE acc \cup {cur})

\* lines 110-120: the words that end in js, db or sql after at least one more
\* character.  A normalized skill name holds no ".", so the two patterns with
\* a "." (file extensions, .net) match nothing.
TechTerms(skill_lower) ==
    {w \in WordRunsFrom(skill_lower, "", {}) :
        \/ Len(w) >= 3 /\ endswith(w, "js")
        \/ Len(w) >= 3 /\ endswith(w, "db")
        \/ Len(w) >= 4 /\ endswith(w, "sql")}

KeepRoleWord(w) == w \notin STOP_WORDS /\ Len(w) > 2

extract_keywords(skill_name, role_name) ==
    LET keywords == Range(split(skill_name))
                    \cup Range(SelectSeq(split(lower(role_name)), KeepRoleWord))
                    \cup SynonymKeywords(lower(skill_name))
                    \cup TechTerms(lower(skill_name))
    IN  SortedStrings({k \in keywords : Len(k) > 1})

(***************************************************************************)
(* clean_roadmaps: the run of the Cleaner.  The input arrives skill by     *)
(* skill: each step reads one skill of a section of a role object.         *)
(***************************************************************************)
\* raw role names (role_name of the Extractor's output)
RoleNamePool == {"Frontend", "Front End", "Backend"}

\* raw skills: the name of the section, skill_text and the hrefs of the links
SkillPool ==
    { [section_name |-> "main", skill_text |-> "SQL", links |-> <<"https://a.io/sql">>],
      [section_name |-> "Databases", skill_text |-> "Learn SQL",
       links |-> <<"https://a.io/sql", "https://a.io/sql.", "/docs/sql.md">>],
      [section_name |-> "main", skill_text |-> "SQL Backend", links |-> <<>>],
      [section_name |-> "Languages", skill_text |-> "Go", links |-> <<>>],
      [section_name |-> "main", skill_text |-> "C", links |-> <<>>] }

\* lines 262-265: the slug, suffixed with the role's slug when it is taken
NewSkillId(normalized_skill, normalized_role, seen) ==
    LET skill_id == slugify(normalized_skill) IN
    IF skill_id \in seen THEN skill_id \o "-" \o slugify(normalized_role) ELSE skill_id

\* lines 269-276: normalize each href, keep the first of each
RECURSIVE CleanLinksFrom(_, _)
CleanLinksFrom(hrefs, links) ==
    IF hrefs = <<>> THEN links
    ELSE LET url == clean_normalize_url(Head(hrefs)) IN
         CleanLinksFrom(Tail(hrefs),
                        IF url # None /\ url \notin Range(links) THEN Append(links, url) ELSE links)

CleanLinks(hrefs) == CleanLinksFrom(hrefs, <<>>)

\* the position of key in an insertion-ordered dict of role records, or 0
RoleIndex(dict, key) ==
    IF \E i \in 1..Len(dict) : dict[i].role = key
    THEN CHOOSE i \in 1..Len(dict) : dict[i].role = key
    ELSE 0

\* lines 290-291: roles_dict[normalized_role]['skills'].append(skill_entry)
AppendSkill(dict, normalized_role, entry) ==
    LET k == RoleIndex(dict, normalized_role) IN
    IF k = 0 THEN Append(dict, [role |-> normalized_role, skills |-> <<entry>>])
    ELSE [dict EXCEPT ![k].skills = Append(@, entry)]

\* lines 236-291 for one skill: skill_ids_seen and roles_dict after it
ProcessOne(seen, dict, role_name, skill) ==
    LET normalized_role == normalize_role_name(role_name)
        skill_text == strip(skill.skill_text, " ")
        normalized_skill == normalize_skill_name(skill_text)
    IN  IF \/ role_name = "" \/ normalized_role = "" \/ skill_text = ""
           \/ normalized_skill = "" \/ Len(normalized_skill) < 2
        THEN [seen |-> seen, dict |-> dict]
        ELSE LET skill_id == NewSkillId(normalized_skill, normalized_role, seen)
                 skill_entry ==
                     [skill_id |-> skill_id,
                      name |-> normalized_skill,
                      category |-> IF skill.section_name = "main" THEN None
                                   ELSE skill.section_name,
                      keywords |-> extract_keywords(normalized_skill, normalized_role),
                      links |-> CleanLinks(skill.links)]
             IN  [seen |-> seen \cup {skill_id},
                  dict |-> AppendSkill(dict, normalized_role, skill_entry)]

role_mergers ==
    << [canonical |-> "ci/cd",     variants |-> <<"continuous integration", "continuous deployment">>],
       [canonical |-> "devops",    variants |-> <<"development operations">>],
       [canonical |-> "frontend",  variants |-> <<"front-end", "front end">>],
       [canonical |-> "backend",   variants |-> <<"back-end", "back end">>],
       [canonical |-> "fullstack", variants |-> <<"full-stack", "full stack">>] >>

\* lines 203-210: the canonical name of the first merge rule the role matches
MergedInto(role_lower) ==
    LET hits == {i \in 1..Len(role_mergers) :
                    \/ role_lower = role_mergers[i].canonical
                    \/ role_lower \in Range(role_mergers[i].variants)
                    \/ \E v \in Range(role_mergers[i].variants) : contains(role_lower, v)}
    IN  IF hits = {} THEN None
        ELSE title(role_mergers[CHOOSE i \in hits : \A j \in hits : i <= j].canonical)

\* MergeStep with the merge assigning the variant's skills instead of extending
MergeStepAssign(dict, acc, i) ==
    LET merged_into == MergedInto(lower(dict[i].role))
        k == IF merged_into = None THEN 0 ELSE RoleIndex(acc, merged_into)
    IN  IF k # 0 THEN [acc EXCEPT ![k].skills = dict[i].skills]
        ELSE Append(acc, dict[i])

\* lines 212-220, for the role at position i.  The two branches that do not merge
\* both store the role under its own name.
MergeStep(dict, acc, i) ==
    LET merged_into == MergedInto(lower(dict[i].role))
        k == IF merged_into = None THEN 0 ELSE RoleIndex(acc, merged_into)
        own == RoleIndex(acc, dict[i].role)
    IN  IF k # 0 THEN [acc EXCEPT ![k].skills = @ \o dict[i].skills]
        ELSE IF own # 0 THEN [acc EXCEPT ![own] = dict[i]]
        ELSE Append(acc, dict[i])

RECURSIVE MergeFrom(_, _, _)
MergeFrom(dict, acc, i) ==
    IF i > Len(dict) THEN acc ELSE MergeFrom(dict, MergeStep(dict, acc, i), i + 1)

merge_duplicate_roles(dict) == MergeFrom(dict, <<>>, 1)

\* line 303
Retained(s) == s.links # <<>> \/ Len(s.name) > 3

\* lines 307-313: the first skill of each name
RECURSIVE UniqueSkillsFrom(_, _)
UniqueSkillsFrom(skills, unique_skills) ==
    IF skills = <<>> THEN unique_skills
    ELSE UniqueSkillsFrom(Tail(skills),
            IF Head(skills).name # "" /\ \A j \in 1..Len(unique_skills) : unique_skills[j].name # Head(skills).name
            THEN Append(unique_skills, Head(skills)) ELSE unique_skills)

UniqueSkills(skills) == UniqueSkillsFrom(skills, <<>>)

\* list.sort(key=role): stable insertion into a sorted list
RECURSIVE InsertRole(_, _)
InsertRole(sorted, r) ==
    IF sorted = <<>> THEN <<r>>
    ELSE IF StrLess(r.role, Head(sorted).role) THEN <<r>> \o sorted
    ELSE <<Head(sorted)>> \o InsertRole(Tail(sorted), r)

RECURSIVE SortRoles(_, _)
SortRoles(roles, sorted) ==
    IF roles = <<>> THEN sorted ELSE SortRoles(Tail(roles), InsertRole(sorted, Head(roles)))

\* lines 298-321
RECURSIVE FinalizeFrom(_, _)
FinalizeFrom(dict, out) ==
    IF dict = <<>> THEN SortRoles(out, <<>>)
    ELSE LET skills == SelectSeq(Head(dict).skills, Retained) IN
         FinalizeFrom(Tail(dict),
            IF skills # <<>>
            THEN Append(out, [role |-> Head(dict).role, skills |-> UniqueSkills(skills)])
            ELSE out)

FinalizeRoles(dict) == FinalizeFrom(dict, <<>>)

CleanerInit ==
    /\ NotCleanerIdle
    /\ cl_pc = "process"
    /\ cl_read = 0
    /\ skill_ids_seen = {}
    /\ roles_dict = <<>>
    /\ merged = <<>>
    /\ cleaned_roles = <<>>
    /\ cleaned_file = None

\* lines 235-291: one skill of a role object named role_name
ProcessSkill(role_name, skill) ==
    /\ cl_pc = "process"
    /\ cl_read < MaxSkills
    /\ cl_read' = cl_read + 1
    /\ LET processed == ProcessOne(skill_ids_seen, roles_dict, role_name, skill) IN
       /\ skill_ids_seen' = processed.seen
       /\ roles_dict' = processed.dict
    /\ UNCHANGED <<cl_pc, merged, cleaned_roles, cleaned_file>>
    /\ UNCHANGED notCleanerVars

\* line 294, when the input is exhausted
MergeRoles ==
    /\ cl_pc = "process"
    /\ merged' = merge_duplicate_roles(roles_dict)
    /\ cl_pc' = "finalize"
    /\ UNCHANGED <<cl_read, skill_ids_seen, roles_dict, cleaned_roles, cleaned_file>>
    /\ UNCHANGED notCleanerVars

\* lines 296-325
Finalize ==
    /\ cl_pc = "finalize"
    /\ cleaned_roles' = FinalizeRoles(merged)
    /\ cl_pc' = "write"
    /\ UNCHANGED <<cl_read, skill_ids_seen, roles_dict, merged, cleaned_file>>
    /\ UNCHANGED notCleanerVars

\* lines 327-329
WriteCleaned ==
    /\ cl_pc = "write"
    /\ cleaned_file' = [roles |-> cleaned_roles]
    /\ cl_pc' = "done"
    /\ UNCHANGED <<cl_read, skill_ids_seen, roles_dict, merged, cleaned_roles>>
    /\ UNCHANGED notCleanerVars

CleanerNext ==
    \/ \E role_name \in RoleNamePool, skill \in SkillPool : ProcessSkill(role_name, skill)
    \/ MergeRoles
    \/ Finalize
    \/ WriteCleaned

SpecCleaner == CleanerInit /\ [][CleanerNext]_vars


(***************************************************************************)
(* Claims about the Cleaner.                                               *)
(***************************************************************************)
\* every skill of the cleaned output, as <<role position, skill position>>
CleanedSkillPositions ==
    {<<i, j>> : i \in 1..Len(cleaned_roles), j \in 1..MaxSkills} \cap
    {p \in (1..Len(cleaned_roles)) \X (1..MaxSkills) : p[2] <= Len(cleaned_roles[p[1]].skills)}

\* C1: after a run of the Cleaner no two skills of the cleaned output, across
\* all roles, have the same skill_id.
C1_SkillIdsUnique ==
    cl_pc = "done" =>
        \A p \in CleanedSkillPositions, q \in CleanedSkillPositions :
            p # q => cleaned_roles[p[1]].skills[p[2]].skill_id
                        # cleaned_roles[q[1]].skills[q[2]].skill_id

\* the positions in roles_dict of the roles merged into the role at position k:
\* the role itself and every later role whose merge rule names it
MergeSources(k) ==
    {i \in 1..Len(roles_dict) :
        i = k \/ (i > k /\ MergedInto(lower(roles_dict[i].role)) = roles_dict[k].role)}

\* a merge took place into the role at position k
MergeHappened(k) == k \in 1..Len(roles_dict) /\ MergeSources(k) # {k}

RECURSIVE SumLen(_, _)
SumLen(dict, S) ==
    IF S = {} THEN 0
    ELSE LET i == CHOOSE x \in S : TRUE IN Len(dict[i].skills) + SumLen(dict, S \ {i})

\* the number of skills of a role of the output, 0 when the role is absent
CleanedCount(role) ==
    LET k == RoleIndex(cleaned_roles, role) IN
    IF k = 0 THEN 0 ELSE Len(cleaned_roles[k].skills)

\* the skills of the sources: their number, the number of distinct names
SourceTotal(k) == SumLen(roles_dict, MergeSources(k))
SourceNames(k) == {s.name : s \in UNION {Range(roles_dict[i].skills) : i \in MergeSources(k)}}
SourceRetainedNames(k) ==
    {s.name : s \in {t \in UNION {Range(roles_dict[i].skills) : i \in MergeSources(k)} :
                        t.links # <<>> \/ Len(t.name) > 3}}

\* C3, as stated: the merged role's skill count is the sum of the input roles'
\* skill counts minus the exact-name duplicates, i.e. one skill per distinct name.
C3_MergeCountOriginal ==
    cl_pc = "done" =>
        \A k \in 1..Len(roles_dict) :
            MergeHappened(k) =>
                CleanedCount(roles_dict[k].role) = Cardinality(SourceNames(k))

\* C3, amended: the merged role's skill count is the sum of the input roles'
\* skill counts minus the skills dropped by the retention rule (no link and a
\* name of at most three characters) minus the exact-name duplicates among the
\* retained skills: one skill per distinct name of a retained skill, and the
\* merged role's skills are exactly the first retained skill of each name.
C3_MergeCount ==
    cl_pc = "done" =>
        \A k \in 1..Len(roles_dict) :
            MergeHappened(k) =>
                /\ CleanedCount(roles_dict[k].role) = Cardinality(SourceRetainedNames(k))
                /\ CleanedCount(roles_dict[k].role) <= SourceTotal(k)
                /\ \A n \in SourceRetainedNames(k) :
                      \E j \in 1..CleanedCount(roles_dict[k].role) :
                          cleaned_roles[RoleIndex(cleaned_roles, roles_dict[k].role)].skills[j].name = n

\* a finished run that merged two roles, dropped an exact-name duplicate and
\* kept the rest
C3_Witness ==
    /\ cl_pc = "done"
    /\ \E k \in 1..Len(roles_dict) :
          /\ MergeHappened(k)
          /\ SourceTotal(k) = 3
          /\ CleanedCount(roles_dict[k].role) = 2

\* C4: every role that matches a merge rule (its lower-cased name is the
\* canonical key, a variant, or contains a variant) appears in the output under
\* the canonical name, merged with every other role that maps to the same
\* canonical name, whatever the order of the roles.  Stated for the roles that
\* have such another role in the input.
C4_MergedUnderCanonical ==
    cl_pc = "done" =>
        \A i \in 1..Len(cleaned_roles) :
            LET merged_into == MergedInto(lower(cleaned_roles[i].role)) IN
            ( /\ merged_into # None
              /\ \E j \in 1..Len(roles_dict) :
                    /\ roles_dict[j].role # cleaned_roles[i].role
                    /\ MergedInto(lower(roles_dict[j].role)) = merged_into )
            => cleaned_roles[i].role = merged_into


(***************************************************************************)
(* The Extractor's functions (scripts/parse_roadmaps.py).                  *)
(*                                                                         *)
(* A markdown file is modelled by what markdown.convert and BeautifulSoup  *)
(* make of it: a sequence of blocks (h1, h2, h3, ul, table, p).  A list    *)
(* item (li) and a table cell hold children: text nodes, anchors and       *)
(* nested lists.  The texts of the model hold no markdown image syntax, so *)
(* the badge patterns of normalize_skill_text do not apply.                *)
(***************************************************************************)
\* REPO_ROOT / "developer-roadmap" as path segments, and ROADMAPS_DIR below it
RepoDir == <<"repo", "developer-roadmap">>
RoadmapsDir == <<"src", "data", "roadmaps">>

\* get_repo_info(), its default
repo_owner_repo == "kamranahmedse/developer-roadmap"

\* an exception no handler of the Extractor catches (ValueError of relative_to)
Raise == "<ValueError>"

TextNode(t) == [kind |-> "text", text |-> t, href |-> "", items |-> <<>>]
Anchor(t, h) == [kind |-> "a", text |-> t, href |-> h, items |-> <<>>]
Ul(items) == [kind |-> "ul", text |-> "", href |-> "", items |-> items]
Li(children) == [children |-> children]
Block(kind, text, items) == [kind |-> kind, text |-> text, href |-> "", items |-> items]

\* str.split(sep) for a separator of one character
RECURSIVE SplitOnFrom(_, _, _, _)
SplitOnFrom(s, sep, cur, acc) ==
    IF s = "" THEN Append(acc, cur)
    ELSE IF Head(s) = sep THEN SplitOnFrom(Tail(s), sep, "", Append(acc, cur))
    ELSE SplitOnFrom(Tail(s), sep, cur \o Head(s), acc)

split_on(s, sep) == SplitOnFrom(s, sep, "", <<>>)

\* str.replace(old, new) for old of one character
RECURSIVE replace(_, _, _)
replace(s, old, new) ==
    IF s = "" THEN ""
    ELSE (IF Head(s) = old THEN new ELSE Head(s)) \o replace(Tail(s), old, new)

\* Path.resolve() of the absolute path segs followed by the segments parts
RECURSIVE ResolveFrom(_, _)
ResolveFrom(segs, parts) ==
    IF parts = <<>> THEN segs
    ELSE LET q == Head(parts) IN
         ResolveFrom(IF q = "" \/ q = "." THEN segs
                     ELSE IF q = ".." THEN (IF segs = <<>> THEN <<>> ELSE SubSeq(segs, 1, Len(segs) - 1))
                     ELSE Append(segs, q),
                     Tail(parts))

IsPrefixSeq(a, b) == Len(a) <= Len(b) /\ SubSeq(b, 1, Len(a)) = a

\* lines 157-162: the raw GitHub URL of a path, or the local path
RawUrl(path, commit) ==
    IF commit # "" /\ commit # "unknown"
    THEN "https://raw.githubusercontent.com/" \o repo_owner_repo \o "/" \o commit \o "/" \o path
    ELSE "/" \o join("/", ResolveFrom(RepoDir, split_on(path, "/")))

\* normalize_url of parse_roadmaps.py; base_dir is the directory of the file,
\* relative to the repository
parse_normalize_url(url, base_dir, commit) ==
    IF url = "" THEN url
    ELSE IF startswith(url, "http://") \/ startswith(url, "https://") THEN url
    ELSE LET u == split_on(url, "#")[1] IN
         IF startswith(u, "/") THEN RawUrl(lstrip(u, "/"), commit)
         ELSE LET abs == ResolveFrom(RepoDir \o base_dir, split_on(u, "/")) IN
              IF ~IsPrefixSeq(RepoDir, abs) THEN Raise
              ELSE LET rel == SubSeq(abs, Len(RepoDir) + 1, Len(abs)) IN
                   RawUrl(IF rel = <<>> THEN "." ELSE join("/", rel), commit)

\* line 101: the type tags, @word@, are removed
RECURSIVE WordRun(_)
WordRun(s) == IF s = "" \/ ~IsWordChar(Head(s)) THEN "" ELSE Head(s) \o WordRun(Tail(s))

RECURSIVE RemoveTypeTags(_)
RemoveTypeTags(s) ==
    IF s = "" THEN ""
    ELSE LET run == IF Head(s) = "@" THEN WordRun(Tail(s)) ELSE "" IN
         IF run # "" /\ Len(s) >= Len(run) + 2 /\ ch(s, Len(run) + 2) = "@"
         THEN RemoveTypeTags(SubSeq(s, Len(run) + 3, Len(s)))
         ELSE Head(s) \o RemoveTypeTags(Tail(s))

normalize_skill_text(text) ==
    IF text = "" THEN ""
    ELSE join(" ", split(rstrip(RemoveTypeTags(text), ".,;:!?")))

\* the anchors of an element, nested lists included, in document order
RECURSIVE AnchorsOfChildren(_), AnchorsOfItems(_)
AnchorsOfChildren(children) ==
    IF children = <<>> THEN <<>>
    ELSE LET c == Head(children) IN
         (IF c.kind = "a" THEN <<c>>
          ELSE IF c.kind = "ul" THEN AnchorsOfItems(c.items)
          ELSE <<>>) \o AnchorsOfChildren(Tail(children))
AnchorsOfItems(items) ==
    IF items = <<>> THEN <<>>
    ELSE AnchorsOfChildren(Head(items).children) \o AnchorsOfItems(Tail(items))

\* str(element): the HTML of an element
RECURSIVE HtmlOfChildren(_), HtmlOfItems(_)
HtmlOfChildren(children) ==
    IF children = <<>> THEN ""
    ELSE LET c == Head(children) IN
         (IF c.kind = "a" THEN "<a href=\"" \o c.href \o "\">" \o c.text \o "</a>"
          ELSE IF c.kind = "ul" THEN "<ul>" \o HtmlOfItems(c.items) \o "</ul>"
          ELSE c.text) \o HtmlOfChildren(Tail(children))
HtmlOfItems(items) ==
    IF items = <<>> THEN ""
    ELSE "<li>" \o HtmlOfChildren(Head(items).children) \o "</li>" \o HtmlOfItems(Tail(items))

\* the character class of url_pattern: no whitespace, no bracket, quote, bar,
\* backslash or caret (the backquote is outside the alphabet of the model)
UrlChar(c) == ~IsSpace(c) /\ ~CharIn(c, "<>\"{}|\\^[]()")

\* the scheme url_pattern matches at position i of s, or ""
SchemeAt(s, i) ==
    IF startswith(SubSeq(s, i, Len(s)), "https://") THEN "https://"
    ELSE IF startswith(SubSeq(s, i, Len(s)), "http://") THEN "http://"
    ELSE ""

\* the end of the run of URL characters that starts at position i of s
UrlRunEnd(s, i) ==
    LET stops == {j \in i..Len(s) : ~UrlChar(ch(s, j))} IN
    IF stops = {} THEN Len(s) ELSE (CHOOSE j \in stops : \A k \in stops : j <= k) - 1

\* url_pattern.finditer(s) from position from: the matches of http:// or
\* https:// followed by at least one URL character, left to right
RECURSIVE FindUrlsFrom(_, _)
FindUrlsFrom(s, from) ==
    LET starts == {i \in from..Len(s) :
                      /\ SchemeAt(s, i) # ""
                      /\ UrlRunEnd(s, i + Len(SchemeAt(s, i))) >= i + Len(SchemeAt(s, i))}
    IN  IF starts = {} THEN <<>>
        ELSE LET i == CHOOSE x \in starts : \A y \in starts : x <= y
                 e == UrlRunEnd(s, i + Len(SchemeAt(s, i)))
             IN  <<SubSeq(s, i, e)>> \o FindUrlsFrom(s, e + 1)

FindUrls(s) == FindUrlsFrom(s, 1)

Hrefs(links) == [i \in 1..Len(links) |-> links[i].href]

\* what a parsing function hands back: a value, None, or an exception that
\* no handler of the Extractor catches
Ok(v) == [status |-> "ok", value |-> v]
NoResult == [status |-> "none"]
Raised == [status |-> "raise"]

\* lines 380-396 (and 197-211): the anchors of an element, the first link of
\* each normalized href; Raised when normalize_url raises.  Only a content file
\* skips the anchors of an empty href (line 204).
RECURSIVE AnchorLinksFrom(_, _, _, _, _)
AnchorLinksFrom(anchors, links, base_dir, commit, skip_empty) ==
    IF anchors = <<>> THEN Ok(links)
    ELSE LET a == Head(anchors)
             href == strip(a.href, " ")
             link_text == IF strip(a.text, " ") # "" THEN strip(a.text, " ") ELSE href
             normalized_link_text ==
                 IF normalize_skill_text(link_text) # "" THEN normalize_skill_text(link_text)
                 ELSE link_text
             normalized_href == parse_normalize_url(href, base_dir, commit)
         IN  IF skip_empty /\ href = ""
             THEN AnchorLinksFrom(Tail(anchors), links, base_dir, commit, skip_empty)
             ELSE IF normalized_href = Raise THEN Raised
             ELSE AnchorLinksFrom(Tail(anchors),
                     IF normalized_href \notin Range(Hrefs(links))
                     THEN Append(links, [text |-> normalized_link_text, href |-> normalized_href])
                     ELSE links,
                     base_dir, commit, skip_empty)

\* lines 409-416 (and 214-221): the plain URLs of s that no link has yet
RECURSIVE PlainUrlLinksFrom(_, _)
PlainUrlLinksFrom(matches, links) ==
    IF matches = <<>> THEN links
    ELSE LET url == rstrip(Head(matches), ".,;:!?)") IN
         PlainUrlLinksFrom(Tail(matches),
             IF url \notin Range(Hrefs(links))
             THEN Append(links, [text |-> url, href |-> url]) ELSE links)

\* lines 361-370: the text of the children before the first nested list
RECURSIVE TextParts(_)
TextParts(children) ==
    IF children = <<>> \/ Head(children).kind = "ul" THEN <<>>
    ELSE <<strip(Head(children).text, " ")>> \o TextParts(Tail(children))

\* line 370: a leading list marker (-, * or +) and the whitespace around it
StripMarker(text) ==
    LET t == lstrip(text, " ") IN
    IF Len(t) >= 2 /\ CharIn(Head(t), "-*+") /\ IsSpace(ch(t, 2))
    THEN lstrip(Tail(t), " ") ELSE text

\* parse_list_item: the skill entry of a list item, None, or an exception.  The
\* entries of the nested items (lines 429-439) are computed and dropped.
parse_list_item(li, base_dir, commit) ==
    LET text == StripMarker(join(" ", TextParts(li.children)))
        anchor_links == AnchorLinksFrom(AnchorsOfChildren(li.children), <<>>, base_dir, commit, FALSE)
    IN  IF anchor_links.status = "raise" THEN Raised
        ELSE LET links == anchor_links.value
                 skill_text == IF strip(text, " ") = "" /\ links # <<>> THEN links[1].text
                               ELSE normalize_skill_text(text)
             IN  IF skill_text = "" THEN NoResult
                 ELSE Ok([skill_text |-> skill_text, parent_skill |-> None,
                          links |-> PlainUrlLinksFrom(
                                      FindUrls("<li>" \o HtmlOfChildren(li.children) \o "</li>"),
                                      links)])

\* element.get_text(strip=True): the stripped strings of an element, joined
RECURSIVE GetText(_), GetTextItems(_)
GetText(children) ==
    IF children = <<>> THEN ""
    ELSE LET c == Head(children) IN
         (IF c.kind = "ul" THEN GetTextItems(c.items) ELSE strip(c.text, " "))
         \o GetText(Tail(children))
GetTextItems(items) ==
    IF items = <<>> THEN ""
    ELSE GetText(Head(items).children) \o GetTextItems(Tail(items))

\* lines 452-473: the anchors of one table cell
RECURSIVE CellSkillsFrom(_, _, _, _, _, _)
CellSkillsFrom(anchors, cell, skills, seen_hrefs, base_dir, commit) ==
    IF anchors = <<>> THEN Ok([skills |-> skills, seen_hrefs |-> seen_hrefs])
    ELSE LET a == Head(anchors)
             href == strip(a.href, " ")
             link_text == IF strip(a.text, " ") # "" THEN strip(a.text, " ") ELSE href
             normalized_href == parse_normalize_url(href, base_dir, commit)
             cell_text == GetText(cell.children)
             skill_text == normalize_skill_text(IF cell_text # "" THEN cell_text ELSE link_text)
         IN  IF href = "" THEN CellSkillsFrom(Tail(anchors), cell, skills, seen_hrefs, base_dir, commit)
             ELSE IF normalized_href = Raise THEN Raised
             ELSE IF normalized_href \in seen_hrefs
                  THEN CellSkillsFrom(Tail(anchors), cell, skills, seen_hrefs, base_dir, commit)
             ELSE CellSkillsFrom(Tail(anchors), cell,
                     IF skill_text # ""
                     THEN Append(skills, [skill_text |-> skill_text, parent_skill |-> None,
                                          links |-> <<[text |-> link_text, href |-> normalized_href]>>])
                     ELSE skills,
                     seen_hrefs \cup {normalized_href}, base_dir, commit)

\* parse_table: one skill for each new href of the cells of a table
RECURSIVE TableSkillsFrom(_, _, _, _, _)
TableSkillsFrom(cells, skills, seen_hrefs, base_dir, commit) ==
    IF cells = <<>> THEN Ok(skills)
    ELSE LET r == CellSkillsFrom(AnchorsOfChildren(Head(cells).children), Head(cells),
                                 skills, seen_hrefs, base_dir, commit)
         IN  IF r.status = "raise" THEN Raised
             ELSE TableSkillsFrom(Tail(cells), r.value.skills, r.value.seen_hrefs, base_dir, commit)

parse_table(table, base_dir, commit) == TableSkillsFrom(table.items, <<>>, {}, base_dir, commit)

\* lines 310-313: the skills of the direct items of a list, appended to skills
RECURSIVE ListSkillsFrom(_, _, _, _)
ListSkillsFrom(items, skills, base_dir, commit) ==
    IF items = <<>> THEN Ok(skills)
    ELSE LET skill_data == parse_list_item(Head(items), base_dir, commit) IN
         IF skill_data.status = "raise" THEN Raised
         ELSE ListSkillsFrom(Tail(items),
                 IF skill_data.status = "ok" THEN Append(skills, skill_data.value) ELSE skills,
                 base_dir, commit)

\* the lists nested in the items of a list, in document order
RECURSIVE NestedLists(_), NestedListsOfChildren(_)
NestedLists(items) ==
    IF items = <<>> THEN <<>>
    ELSE NestedListsOfChildren(Head(items).children) \o NestedLists(Tail(items))
NestedListsOfChildren(children) ==
    IF children = <<>> THEN <<>>
    ELSE LET c == Head(children) IN
         (IF c.kind = "ul" THEN <<Block("ul", "", c.items)>> \o NestedLists(c.items) ELSE <<>>)
         \o NestedListsOfChildren(Tail(children))

\* soup.find_all(['h1', 'h2', 'h3', 'ul', 'ol', 'table']): the search descends, so
\* a nested list is an element of its own
RECURSIVE Elements(_)
Elements(blocks) ==
    IF blocks = <<>> THEN <<>>
    ELSE LET b == Head(blocks) IN
         (IF b.kind = "ul" THEN <<b>> \o NestedLists(b.items)
          ELSE IF b.kind \in {"h1", "h2", "h3", "table"} THEN <<b>>
          ELSE <<>>) \o Elements(Tail(blocks))

\* soup.find('h1')
RECURSIVE FindH1(_)
FindH1(blocks) ==
    IF blocks = <<>> THEN None
    ELSE IF Head(blocks).kind = "h1" THEN strip(Head(blocks).text, " ")
    ELSE FindH1(Tail(blocks))

HasH1(blocks) == \E i \in 1..Len(blocks) : blocks[i].kind = "h1"

Last(seq) == seq[Len(seq)]

\* Path.stem of a file name
stem(name) == IF endswith(name, ".md") THEN SubSeq(name, 1, Len(name) - 3) ELSE name

PathStr(file) == join("/", Append(file.dir, file.name))

\* the anchors of a document (soup.find_all('a', href=True))
RECURSIVE AnchorsOfBlocks(_)
AnchorsOfBlocks(blocks) ==
    IF blocks = <<>> THEN <<>>
    ELSE AnchorsOfItems(Head(blocks).items) \o AnchorsOfBlocks(Tail(blocks))

\* the markdown text of a file (content), as far as the URL scan reads it
RECURSIVE MarkdownOfChildren(_), MarkdownOfItems(_)
MarkdownOfChildren(children) ==
    IF children = <<>> THEN ""
    ELSE LET c == Head(children) IN
         (IF c.kind = "a" THEN "[" \o c.text \o "](" \o c.href \o ")"
          ELSE IF c.kind = "ul" THEN " " \o MarkdownOfItems(c.items)
          ELSE c.text) \o MarkdownOfChildren(Tail(children))
MarkdownOfItems(items) ==
    IF items = <<>> THEN ""
    ELSE "- " \o MarkdownOfChildren(Head(items).children) \o " " \o MarkdownOfItems(Tail(items))

RECURSIVE MarkdownOf(_)
MarkdownOf(blocks) ==
    IF blocks = <<>> THEN ""
    ELSE LET b == Head(blocks) IN
         (IF b.kind = "h1" THEN "# " \o b.text
          ELSE IF b.kind = "h2" THEN "## " \o b.text
          ELSE IF b.kind = "h3" THEN "### " \o b.text
          ELSE MarkdownOfItems(b.items)) \o " " \o MarkdownOf(Tail(blocks))

\* parse_content_file: a content file is one skill
parse_content_file(file, commit) ==
    IF ~file.readable \/ ~file.md_ok THEN NoResult
    ELSE LET skill_text ==
                 normalize_skill_text(
                     IF HasH1(file.blocks) THEN FindH1(file.blocks)
                     ELSE title(replace(split_on(stem(file.name), "@")[1], "-", " ")))
         IN  IF skill_text = "" THEN NoResult
             ELSE LET anchor_links ==
                          AnchorLinksFrom(AnchorsOfBlocks(file.blocks), <<>>, file.dir, commit, TRUE)
                  IN  IF anchor_links.status = "raise" THEN Raised
                      ELSE Ok([skill_text |-> skill_text, parent_skill |-> None,
                               links |-> PlainUrlLinksFrom(FindUrls(MarkdownOf(file.blocks)),
                                                           anchor_links.value)])

\* lines 267-279: the role name of a file that has no h1 text
FolderRoleName(file) ==
    LET folder_name == Last(file.dir) IN
    IF folder_name # "" /\ folder_name # "content" THEN title(replace(folder_name, "-", " "))
    ELSE LET parent_folder == IF folder_name = "content" THEN file.dir[Len(file.dir) - 1]
                              ELSE folder_name
         IN  IF parent_folder # "" THEN title(replace(parent_folder, "-", " "))
             ELSE title(replace(stem(file.name), "-", " "))

\* lines 289-328: the sections of the elements; cur is the open section, if any
RECURSIVE SectionsFrom(_, _, _, _, _)
SectionsFrom(elements, sections, cur, base_dir, commit) ==
    LET closed == IF Len(cur) = 1 /\ Len(cur[1].skills) > 0 THEN Append(sections, cur[1])
                  ELSE sections
        open == IF Len(cur) = 0 THEN [section_name |-> "main", skills |-> <<>>] ELSE cur[1]
    IN  IF elements = <<>> THEN Ok(closed)
        ELSE LET e == Head(elements) IN
             IF e.kind \in {"h2", "h3"}
             THEN SectionsFrom(Tail(elements), closed,
                               <<[section_name |-> strip(e.text, " "), skills |-> <<>>]>>,
                               base_dir, commit)
             ELSE IF e.kind = "ul"
             THEN LET r == ListSkillsFrom(e.items, open.skills, base_dir, commit) IN
                  IF r.status = "raise" THEN Raised
                  ELSE SectionsFrom(Tail(elements), sections,
                                    <<[open EXCEPT !.skills = r.value]>>, base_dir, commit)
             ELSE IF e.kind = "table"
             THEN LET r == parse_table(e, base_dir, commit) IN
                  IF r.status = "raise" THEN Raised
                  ELSE SectionsFrom(Tail(elements), sections,
                                    <<[open EXCEPT !.skills = @ \o r.value]>>, base_dir, commit)
             ELSE SectionsFrom(Tail(elements), sections, cur, base_dir, commit)

\* lines 331-346: with no section, the items of every list once more
RECURSIVE AllListSkillsFrom(_, _, _, _)
AllListSkillsFrom(elements, skills, base_dir, commit) ==
    IF elements = <<>> THEN Ok(skills)
    ELSE IF Head(elements).kind # "ul"
    THEN AllListSkillsFrom(Tail(elements), skills, base_dir, commit)
    ELSE LET r == ListSkillsFrom(Head(elements).items, skills, base_dir, commit) IN
         IF r.status = "raise" THEN Raised
         ELSE AllListSkillsFrom(Tail(elements), r.value, base_dir, commit)

\* lines 348-355: the result of a file, given its sections and, when it has
\* none, the skills of its lists
RoleOfSections(file, found, again) ==
    IF again.status = "raise" THEN Raised
    ELSE LET role_name == IF HasH1(file.blocks) /\ FindH1(file.blocks) # ""
                          THEN FindH1(file.blocks) ELSE FolderRoleName(file)
             sections == IF found.value = <<>> /\ again.value # <<>>
                         THEN <<[section_name |-> "main", skills |-> again.value]>>
                         ELSE found.value
         IN  IF sections = <<>> THEN NoResult
             ELSE Ok([role_name |-> role_name,
                      source_files |-> <<PathStr(file)>>,
                      sections |-> sections])

\* lines 330-346: a file with no section has the skills of its lists collected
WithSections(file, commit, found) ==
    IF found.status = "raise" THEN Raised
    ELSE RoleOfSections(file, found,
                        IF found.value = <<>>
                        THEN AllListSkillsFrom(Elements(file.blocks), <<>>, file.dir, commit)
                        ELSE Ok(<<>>))

\* parse_markdown_file: the role, source file and sections of a roadmap file
parse_markdown_file(file, commit) ==
    IF ~file.readable THEN NoResult
    ELSE IF file.blocks = <<>> THEN NoResult
    ELSE IF ~file.md_ok THEN NoResult
    ELSE WithSections(file, commit,
                      SectionsFrom(Elements(file.blocks), <<>>, <<>>, file.dir, commit))

\* the warning the try blocks of a parsing function record for a file
ParseWarning(file) ==
    IF ~file.readable THEN <<"Failed to read " \o PathStr(file)>>
    ELSE IF Last(file.dir) # "content" /\ file.blocks = <<>> THEN <<>>
    ELSE IF ~file.md_ok THEN <<"Failed to parse markdown in " \o PathStr(file)>>
    ELSE <<>>

(***************************************************************************)
(* The Extractor's run (process_roadmaps and main of parse_roadmaps.py).   *)
(***************************************************************************)
\* the most files of one run
MaxFiles == 3

File(dir, name, readable, md_ok, blocks) ==
    [dir |-> dir, name |-> name, readable |-> readable, md_ok |-> md_ok, blocks |-> blocks]

Para(children) == Block("p", "", <<Li(children)>>)

BackendDir == RoadmapsDir \o <<"backend">>
FrontendDir == RoadmapsDir \o <<"frontend">>
DevopsDir == RoadmapsDir \o <<"devops">>

\* the files find_markdown_files can return: roadmap files and the direct
\* children of a content directory
FilePool ==
    { File(BackendDir, "backend.md", TRUE, TRUE,
           << Block("h1", "Backend Developer", <<>>),
              Block("h2", "Databases", <<>>),
              Block("ul", "",
                    << Li(<<TextNode("SQL "), Anchor("@official@SQL Docs", "https://a.io/sql")>>),
                       Li(<<Anchor("Go", "./content/go.md#intro"),
                            Ul(<<Li(<<Anchor("Goroutines.", "https://go.dev/tour")>>)>>)>>) >>) >>),
      File(BackendDir \o <<"content">>, "sql@x1.md", TRUE, TRUE,
           << Block("h1", "SQL", <<>>),
              Para(<<TextNode("See https://a.io/sql. and "), Anchor("docs", "https://a.io/sql")>>) >>),
      File(FrontendDir, "frontend.md", TRUE, TRUE,
           << Block("ul", "", <<Li(<<TextNode("HTML")>>)>>),
              Block("table", "", <<Li(<<Anchor("CSS", "/docs/css.md")>>),
                                   Li(<<Anchor("CSS again", "/docs/css.md")>>)>>) >>),
      File(FrontendDir \o <<"content">>, "html-basics.md", TRUE, TRUE,
           << Para(<<Anchor("", "https://b.io/html")>>) >>),
      File(BackendDir, "faq.md", FALSE, TRUE, <<>>),
      File(FrontendDir \o <<"content">>, "css.md", TRUE, FALSE, <<>>),
      File(DevopsDir, "devops.md", TRUE, TRUE,
           << Block("ul", "", <<Li(<<Anchor("Up", "../../../../../x.md")>>)>>) >>),
      File(BackendDir, "notes.md", TRUE, TRUE, <<>>) }

\* get_git_commit_hash(): the commit, or "unknown"
CommitPool == {"abc123", "unknown"}

\* the lists of at most MaxFiles distinct files, in any order
FileSeqs ==
    UNION { {q \in [1..n -> FilePool] : \A i, j \in 1..n : i # j => q[i] # q[j]} : n \in 0..MaxFiles }

ExRoleIndex(dict, name) ==
    IF \E i \in 1..Len(dict) : dict[i].role_name = name
    THEN CHOOSE i \in 1..Len(dict) : dict[i].role_name = name
    ELSE 0

SectionIndex(sections, name) ==
    IF \E i \in 1..Len(sections) : sections[i].section_name = name
    THEN CHOOSE i \in 1..Len(sections) : sections[i].section_name = name
    ELSE 0

\* lines 549-552: the sections of a result, merged by name
RECURSIVE MergeSections(_, _)
MergeSections(sections, new) ==
    IF new = <<>> THEN sections
    ELSE LET k == SectionIndex(sections, Head(new).section_name) IN
         MergeSections(IF k = 0 THEN Append(sections, Head(new))
                       ELSE [sections EXCEPT ![k].skills = @ \o Head(new).skills],
                       Tail(new))

\* lines 544-552 (and 556-561): roles_dict[role_name] takes the files and sections
AddResult(dict, result) ==
    LET k == ExRoleIndex(dict, result.role_name)
        base == IF k = 0
                THEN [role_name |-> result.role_name, source_files |-> <<>>, sections |-> <<>>]
                ELSE dict[k]
        upd == [base EXCEPT !.source_files = @ \o result.source_files,
                            !.sections = MergeSections(@, result.sections)]
    IN  IF k = 0 THEN Append(dict, upd) ELSE [dict EXCEPT ![k] = upd]

\* line 536: content_files_by_role[role_name]["main"].append(...); the section is
\* always "main", because only direct children of content are listed
AddContent(by_role, role_name, item) ==
    LET k == ExRoleIndex(by_role, role_name) IN
    IF k = 0 THEN Append(by_role, [role_name |-> role_name, items |-> <<item>>])
    ELSE [by_role EXCEPT ![k].items = Append(@, item)]

\* lines 555-561
RECURSIVE MergeContentFrom(_, _)
MergeContentFrom(by_role, dict) ==
    IF by_role = <<>> THEN dict
    ELSE LET r == Head(by_role) IN
         MergeContentFrom(Tail(by_role),
             AddResult(dict,
                 [role_name |-> r.role_name,
                  source_files |-> [i \in 1..Len(r.items) |-> r.items[i].file],
                  sections |-> <<[section_name |-> "main",
                                  skills |-> [i \in 1..Len(r.items) |-> r.items[i].skill]]>>]))

\* lines 564-577
RolesList(dict) ==
    [i \in 1..Len(dict) |->
        [role_name |-> dict[i].role_name,
         source_files |-> SortedStrings(Range(dict[i].source_files)),
         sections |-> dict[i].sections]]

ExtractorInit ==
    /\ NotExtractorIdle
    /\ ex_pc = "parse"
    /\ md_files \in FileSeqs
    /\ ex_next = 1
    /\ commit_hash \in CommitPool
    /\ ex_roles_dict = <<>>
    /\ content_files_by_role = <<>>
    /\ PARSE_WARNINGS = <<>>
    /\ raw_file = None

\* lines 504-506 and main: no file, a warning, and the run exits with status 1
NoFiles ==
    /\ ex_pc = "parse"
    /\ md_files = <<>>
    /\ PARSE_WARNINGS' = Append(PARSE_WARNINGS, "No markdown files found")
    /\ ex_pc' = "failed"
    /\ UNCHANGED <<md_files, ex_next, commit_hash, ex_roles_dict, content_files_by_role, raw_file>>
    /\ UNCHANGED notExtractorVars

\* lines 520-552: what the loop does with the result of a file
StoreResult(md_file, is_content, result) ==
    /\ ex_pc' = IF result.status = "raise" THEN "aborted" ELSE "parse"
    /\ ex_next' = IF result.status = "raise" THEN ex_next ELSE ex_next + 1
    /\ content_files_by_role' =
           IF is_content /\ result.status = "ok"
           THEN AddContent(content_files_by_role,
                           title(replace(md_file.dir[Len(md_file.dir) - 1], "-", " ")),
                           [file |-> PathStr(md_file), skill |-> result.value])
           ELSE content_files_by_role
    /\ ex_roles_dict' =
           IF ~is_content /\ result.status = "ok"
           THEN AddResult(ex_roles_dict, result.value)
           ELSE ex_roles_dict

\* lines 518-552: one file of the loop.  An exception of a parsing function is
\* caught nowhere, so it ends the run.
ParseFile ==
    /\ ex_pc = "parse"
    /\ ex_next <= Len(md_files)
    /\ PARSE_WARNINGS' = PARSE_WARNINGS \o ParseWarning(md_files[ex_next])
    /\ StoreResult(md_files[ex_next], Last(md_files[ex_next].dir) = "content",
                   IF Last(md_files[ex_next].dir) = "content"
                   THEN parse_content_file(md_files[ex_next], commit_hash)
                   ELSE parse_markdown_file(md_files[ex_next], commit_hash))
    /\ UNCHANGED <<md_files, commit_hash, raw_file>>
    /\ UNCHANGED notExtractorVars

\* lines 554-561: the content files join the roles
MergeContent ==
    /\ ex_pc = "parse"
    /\ md_files # <<>>
    /\ ex_next > Len(md_files)
    /\ ex_roles_dict' = MergeContentFrom(content_files_by_role, ex_roles_dict)
    /\ ex_pc' = "write"
    /\ UNCHANGED <<md_files, ex_next, commit_hash, content_files_by_role, PARSE_WARNINGS, raw_file>>
    /\ UNCHANGED notExtractorVars

\* lines 563-586 and write_json_output
WriteJson ==
    /\ ex_pc = "write"
    /\ raw_file' = [roles |-> RolesList(ex_roles_dict)]
    /\ ex_pc' = "done"
    /\ UNCHANGED <<md_files, ex_next, commit_hash, ex_roles_dict, content_files_by_role, PARSE_WARNINGS>>
    /\ UNCHANGED notExtractorVars

ExtractorNext == NoFiles \/ ParseFile \/ MergeContent \/ WriteJson

SpecExtractor == ExtractorInit /\ [][ExtractorNext]_vars

(***************************************************************************)
(* Claims about the Extractor.                                             *)
(***************************************************************************)
\* the role directory a source file of the output lies in
RoleDirOfPath(path) ==
    LET parts == split_on(path, "/") IN
    IF parts[Len(parts) - 1] = "content" THEN parts[Len(parts) - 2] ELSE parts[Len(parts) - 1]

RoleDirOfFile(file) ==
    IF Last(file.dir) = "content" THEN file.dir[Len(file.dir) - 1] ELSE Last(file.dir)

\* the file gives the run at least one skill
GivesSkills(file) ==
    IF Last(file.dir) = "content" THEN parse_content_file(file, commit_hash).status = "ok"
    ELSE parse_markdown_file(file, commit_hash).status = "ok"

\* the role directories with a main file and a content file that both give skills
DirsWithMainAndContent ==
    {RoleDirOfFile(md_files[i]) : i \in
        {i \in 1..Len(md_files) :
            /\ Last(md_files[i].dir) # "content"
            /\ GivesSkills(md_files[i])
            /\ \E j \in 1..Len(md_files) :
                   /\ Last(md_files[j].dir) = "content"
                   /\ RoleDirOfFile(md_files[j]) = RoleDirOfFile(md_files[i])
                   /\ GivesSkills(md_files[j])}}

\* the roles of the output that hold a source file of directory d
RolesOfDir(d) ==
    {i \in 1..Len(raw_file.roles) :
        \E k \in 1..Len(raw_file.roles[i].source_files) :
            RoleDirOfPath(raw_file.roles[i].source_files[k]) = d}

\* C5: when a run has written its output, every role directory that holds a main
\* roadmap file and content files (all of them giving skills) has exactly one
\* role in the output, so the skills of the main file and of the content files
\* are not split over two roles.
C5_OneRolePerDirectory ==
    ex_pc = "done" =>
        \A d \in DirsWithMainAndContent : Cardinality(RolesOfDir(d)) = 1

\* C6: no run of the Extractor is aborted by an error that one input file
\* raises while it is read, converted or its links are processed.
C6_NoFileAbortsRun == ex_pc # "aborted"

\* the skill entries of the output
OutputSkills ==
    UNION { UNION { Range(raw_file.roles[i].sections[j].skills) :
                        j \in 1..Len(raw_file.roles[i].sections) } :
                i \in 1..Len(raw_file.roles) }

\* the positions of the lists among the children of a list item
ListChildren(li) == {k \in 1..Len(li.children) : li.children[k].kind = "ul"}

\* the items of a list that give a skill
SkillItems(items, base_dir, commit) ==
    {j \in 1..Len(items) : parse_list_item(items[j], base_dir, commit).status = "ok"}

\* the nested items of the items of a list, each with the skill text of the item
\* that encloses it
RECURSIVE NestedPairs(_, _, _)
NestedPairs(items, base_dir, commit) ==
    UNION { UNION { LET nested == items[i].children[k].items IN
                    {[skill_text |-> parse_list_item(nested[j], base_dir, commit).value.skill_text,
                      parent_skill |-> parse_list_item(items[i], base_dir, commit).value.skill_text] :
                         j \in SkillItems(nested, base_dir, commit)}
                    \cup NestedPairs(nested, base_dir, commit) :
                        k \in ListChildren(items[i]) } :
                i \in SkillItems(items, base_dir, commit) }

\* the nested items of the roadmap files of the run that were parsed
NestedOfRun ==
    UNION { UNION { NestedPairs(md_files[i].blocks[b].items, md_files[i].dir, commit_hash) :
                        b \in {b \in 1..Len(md_files[i].blocks) : md_files[i].blocks[b].kind = "ul"} } :
                i \in {i \in 1..Len(md_files) :
                          /\ Last(md_files[i].dir) # "content"
                          /\ GivesSkills(md_files[i])} }

\* C18: when a run has written its output, every nested list item of a parsed
\* roadmap file is a skill entry of the output whose parent_skill is the skill
\* text of the item that encloses it, and an entry that is no nested item has
\* parent_skill None.
C18_NestedParentSkill ==
    ex_pc = "done" =>
        /\ \A p \in NestedOfRun :
               \E skill \in OutputSkills :
                   /\ skill.skill_text = p.skill_text
                   /\ skill.parent_skill = p.parent_skill
        /\ \A skill \in OutputSkills :
               skill.parent_skill # None =>
                   \E p \in NestedOfRun : /\ skill.skill_text = p.skill_text
                                          /\ skill.parent_skill = p.parent_skill

(***************************************************************************)
(* The links of one list item: parse_list_item of the Extractor, then the  *)
(* link loop of the Cleaner (clean_roadmaps.py lines 269-276), then that   *)
(* loop on its own result.                                                 *)
(***************************************************************************)
\* the most children of the list item
MaxChildren == 3

\* the children a list item can hold
NodePool ==
    { TextNode("SQL"),
      TextNode("see https://a.io/sql."),
      Anchor("Docs", "https://a.io/sql"),
      Anchor("Docs 2", "https://a.io/sql ."),
      Anchor("Guide", "./guide.md"),
      Anchor("Guide again", "guide.md#top"),
      Ul(<<Li(<<Anchor("Nested", "https://a.io/sql")>>)>>) }

ChildSeqs == UNION { [1..n -> NodePool] : n \in 0..MaxChildren }

LinksInit ==
    /\ NotLinksIdle
    /\ lk_pc = "start"
    /\ lk_item \in {Li(children) : children \in ChildSeqs}
    /\ lk_commit \in CommitPool
    /\ lk_links = <<>>
    /\ lk_cleaned = <<>>
    /\ lk_again = <<>>

\* parse_list_item on the item, in a file of the backend directory
ExtractLinks ==
    /\ lk_pc = "start"
    /\ LET skill_data == parse_list_item(lk_item, BackendDir, lk_commit) IN
       /\ lk_pc' = IF skill_data.status = "ok" THEN "extracted" ELSE "none"
       /\ lk_links' = IF skill_data.status = "ok" THEN skill_data.value.links ELSE <<>>
    /\ UNCHANGED <<lk_item, lk_commit, lk_cleaned, lk_again>>
    /\ UNCHANGED notLinksVars

\* clean_roadmaps.py lines 269-276 on the links of the skill
CleanSkillLinks ==
    /\ lk_pc = "extracted"
    /\ lk_cleaned' = CleanLinks(Hrefs(lk_links))
    /\ lk_pc' = "cleaned"
    /\ UNCHANGED <<lk_item, lk_commit, lk_links, lk_again>>
    /\ UNCHANGED notLinksVars

\* the same loop on the links it has kept
CleanLinksAgain ==
    /\ lk_pc = "cleaned"
    /\ lk_again' = CleanLinks(lk_cleaned)
    /\ lk_pc' = "again"
    /\ UNCHANGED <<lk_item, lk_commit, lk_links, lk_cleaned>>
    /\ UNCHANGED notLinksVars

LinksNext == ExtractLinks \/ CleanSkillLinks \/ CleanLinksAgain

SpecLinks == LinksInit /\ [][LinksNext]_vars

(***************************************************************************)
(* Claims about the links.                                                 *)
(***************************************************************************)
NoDuplicates(seq) == \A i, j \in 1..Len(seq) : seq[i] = seq[j] => i = j

\* C8: the links of a skill entry of the Extractor and of the Cleaner hold no
\* href twice, and the Cleaner's deduplication of its own links returns them
\* unchanged.
C8_LinkDedupIdempotent ==
    /\ lk_pc \in {"extracted", "cleaned", "again"} => NoDuplicates(Hrefs(lk_links))
    /\ lk_pc \in {"cleaned", "again"} => NoDuplicates(lk_cleaned)
    /\ lk_pc = "again" => lk_again = lk_cleaned

(***************************************************************************)
(* normalize_skill_name applied to a name, and to its own result.          *)
(***************************************************************************)
\* the most words of a skill name
MaxWords == 3

\* the words of the skill names
WordPool == {"Learn", "the", "SQL", "guide", "sql.", "Go", "c"}

NamePool == {join(" ", words) : words \in UNION { [1..n -> WordPool] : n \in 0..MaxWords }}

NormalizeInit ==
    /\ NotNormalizeIdle
    /\ nm_pc = "start"
    /\ nm_input \in NamePool
    /\ nm_once = ""
    /\ nm_twice = ""

NormalizeOnce ==
    /\ nm_pc = "start"
    /\ nm_once' = normalize_skill_name(nm_input)
    /\ nm_pc' = "once"
    /\ UNCHANGED <<nm_input, nm_twice>>
    /\ UNCHANGED notNormalizeVars

NormalizeTwice ==
    /\ nm_pc = "once"
    /\ nm_twice' = normalize_skill_name(nm_once)
    /\ nm_pc' = "twice"
    /\ UNCHANGED <<nm_input, nm_once>>
    /\ UNCHANGED notNormalizeVars

NormalizeNext == NormalizeOnce \/ NormalizeTwice

SpecNormalize == NormalizeInit /\ [][NormalizeNext]_vars

\* C7: normalize_skill_name returns its own outputs unchanged.
C7_NormalizeIdempotent == nm_pc = "twice" => nm_twice = nm_once

(***************************************************************************)
(* The Domain Restructurer, pass 1 (scripts/restructure_domains.py).       *)
(* The descriptions of the domains are text that no branch reads; the      *)
(* records of the model leave them out.                                    *)
(***************************************************************************)
\* DOMAIN_MAPPINGS: the roles of each umbrella domain, in declaration order
DOMAIN_MAPPINGS ==
    << [domain |-> "Web Development", roles |-> <<"Frontend", "Backend", "Full Stack", "API Design",
         "QA", "GraphQL", "Git and GitHub", "HTML", "CSS", "JavaScript", "TypeScript", "React",
         "Vue", "Angular", "Next.js", "Node.js", "PHP", "Laravel", "ASP.NET Core",
         "Spring Boot">>],
       [domain |-> "Mobile Development", roles |-> <<"Android", "iOS", "React Native", "Flutter",
         "Swift UI", "Kotlin", "Mobile Apps", "Android Studio", "Xcode">>],
       [domain |-> "Artificial Intelligence & Machine Learning", roles |-> <<"AI Engineer",
         "AI Agents", "AI Data Scientist", "AI Red Teaming", "Machine Learning", "MLOps",
         "Prompt Engineering", "Data Science">>],
       [domain |-> "Data Engineering & Analytics", roles |-> <<"Data Engineer", "Data Analyst",
         "BI Analyst", "Data Structures", "SQL", "PostgreSQL DBA", "MongoDB", "Redis">>],
       [domain |-> "DevOps & Cloud", roles |-> <<"DevOps", "AWS", "Cloudflare", "Terraform", "Docker",
         "Kubernetes", "Linux", "CI/CD", "Shell Bash", "Git and GitHub">>],
       [domain |-> "Programming Languages", roles |-> <<"Python", "Java", "C++", "Go", "Rust",
         "JavaScript", "TypeScript", "PHP", "Ruby", "Swift", "Kotlin", "Dart", "C#",
         "Shell Bash">>],
       [domain |-> "Computer Science Fundamentals", roles |-> <<"Computer Science",
         "Data Structures and Algorithms", "System Design", "Software Design Architecture",
         "Software Architect", "Code Review", "Datastructures and Algorithms">>],
       [domain |-> "Databases", roles |-> <<"PostgreSQL DBA", "MongoDB", "Redis", "SQL", "Databases">>],
       [domain |-> "Game Development", roles |-> <<"Game Developer", "Server Side Game Developer">>],
       [domain |-> "Design & UX", roles |-> <<"UX Design", "Design System">>],
       [domain |-> "Blockchain", roles |-> <<"Blockchain">>],
       [domain |-> "Cyber Security", roles |-> <<"Cyber Security">>],
       [domain |-> "Management & Leadership", roles |-> <<"Product Manager", "Engineering Manager",
         "Technical Writer", "DevRel">>],
       [domain |-> "Specialized Tools & Frameworks", roles |-> <<"Flutter", "React", "Vue", "Angular",
         "Next.js", "React Native", "Docker", "Kubernetes", "Terraform", "GraphQL">>] >>

\* CATEGORY_MAPPINGS: the categories of a domain and their keywords, in order
CATEGORY_MAPPINGS ==
    << [domain |-> "Web Development", categories |->
          << [category |-> "Frontend Fundamentals", keywords |-> <<"HTML", "CSS", "JavaScript", "TypeScript", "Accessibility">>],
             [category |-> "Frontend Frameworks", keywords |-> <<"React", "Vue", "Angular", "Next.js">>],
             [category |-> "Backend Development", keywords |-> <<"Backend", "Node.js", "PHP", "Laravel", "ASP.NET Core", "Spring Boot">>],
             [category |-> "API & Integration", keywords |-> <<"API Design", "GraphQL", "REST">>],
             [category |-> "Tools & Workflow", keywords |-> <<"Git and GitHub", "Build Tools", "Testing">>] >>],
       [domain |-> "Mobile Development", categories |->
          << [category |-> "Native Development", keywords |-> <<"Android", "iOS", "Swift UI", "Kotlin">>],
             [category |-> "Cross-Platform", keywords |-> <<"React Native", "Flutter">>],
             [category |-> "Mobile Tools", keywords |-> <<"Android Studio", "Xcode", "Mobile Apps">>] >>],
       [domain |-> "Artificial Intelligence & Machine Learning", categories |->
          << [category |-> "AI Fundamentals", keywords |-> <<"AI Engineer", "AI Agents", "AI Data Scientist", "Prompt Engineering">>],
             [category |-> "Machine Learning", keywords |-> <<"Machine Learning", "MLOps", "Data Science">>],
             [category |-> "AI Safety", keywords |-> <<"AI Red Teaming">>] >>],
       [domain |-> "Data Engineering & Analytics", categories |->
          << [category |-> "Data Engineering", keywords |-> <<"Data Engineer", "ETL", "Data Pipelines">>],
             [category |-> "Data Analysis", keywords |-> <<"Data Analyst", "BI Analyst">>],
             [category |-> "Data Storage", keywords |-> <<"SQL", "PostgreSQL", "MongoDB", "Redis">>] >>],
       [domain |-> "DevOps & Cloud", categories |->
          << [category |-> "Cloud Platforms", keywords |-> <<"AWS", "Cloudflare", "Azure">>],
             [category |-> "Infrastructure as Code", keywords |-> <<"Terraform", "Cloudformation">>],
             [category |-> "Containers & Orchestration", keywords |-> <<"Docker", "Kubernetes">>],
             [category |-> "CI/CD", keywords |-> <<"CI/CD", "Continuous Integration", "Continuous Deployment">>],
             [category |-> "System Administration", keywords |-> <<"Linux", "Shell Bash">>] >>],
       [domain |-> "Programming Languages", categories |->
          << [category |-> "General Purpose", keywords |-> <<"Python", "Java", "JavaScript", "TypeScript", "Go", "Rust">>],
             [category |-> "Web Languages", keywords |-> <<"PHP", "Ruby">>],
             [category |-> "Mobile Languages", keywords |-> <<"Swift", "Kotlin", "Dart">>],
             [category |-> "Systems Languages", keywords |-> <<"C++", "C#", "Rust">>] >>],
       [domain |-> "Computer Science Fundamentals", categories |->
          << [category |-> "Core Concepts", keywords |-> <<"Computer Science", "Algorithms", "Data Structures">>],
             [category |-> "System Design", keywords |-> <<"System Design", "Architecture">>],
             [category |-> "Software Engineering", keywords |-> <<"Code Review", "Software Architect">>] >>],
       [domain |-> "Databases", categories |->
          << [category |-> "Relational Databases", keywords |-> <<"PostgreSQL", "SQL", "MySQL">>],
             [category |-> "NoSQL Databases", keywords |-> <<"MongoDB", "Redis">>] >>],
       [domain |-> "Game Development", categories |->
          << [category |-> "Game Engines", keywords |-> <<"Game Developer", "Game Development">>],
             [category |-> "Server Architecture", keywords |-> <<"Server Side Game Developer">>] >>],
       [domain |-> "Design & UX", categories |->
          << [category |-> "User Experience", keywords |-> <<"UX Design", "User Research">>],
             [category |-> "Design Systems", keywords |-> <<"Design System">>] >>],
       [domain |-> "Blockchain", categories |->
          << [category |-> "Blockchain Fundamentals", keywords |-> <<"Blockchain", "Cryptocurrency", "Smart Contracts">>] >>],
       [domain |-> "Cyber Security", categories |->
          << [category |-> "Security Practices", keywords |-> <<"Cyber Security", "Security", "Threat Detection">>] >>],
       [domain |-> "Management & Leadership", categories |->
          << [category |-> "Product Management", keywords |-> <<"Product Manager">>],
             [category |-> "Engineering Leadership", keywords |-> <<"Engineering Manager">>],
             [category |-> "Technical Communication", keywords |-> <<"Technical Writer", "DevRel">>] >>] >>

\* default_categories of find_category_for_skill
default_categories ==
    << [domain |-> "Web Development", category |-> "Web Technologies"],
       [domain |-> "Mobile Development", category |-> "Mobile Technologies"],
       [domain |-> "Artificial Intelligence & Machine Learning", category |-> "AI/ML Technologies"],
       [domain |-> "Data Engineering & Analytics", category |-> "Data Technologies"],
       [domain |-> "DevOps & Cloud", category |-> "DevOps Tools"],
       [domain |-> "Programming Languages", category |-> "Language Features"],
       [domain |-> "Computer Science Fundamentals", category |-> "CS Concepts"],
       [domain |-> "Databases", category |-> "Database Technologies"],
       [domain |-> "Game Development", category |-> "Game Technologies"],
       [domain |-> "Design & UX", category |-> "Design Principles"],
       [domain |-> "Blockchain", category |-> "Blockchain Technologies"],
       [domain |-> "Cyber Security", category |-> "Security Practices"],
       [domain |-> "Management & Leadership", category |-> "Management Skills"],
       [domain |-> "Specialized Tools & Frameworks", category |-> "Tools & Frameworks"] >>


\* normalize_role_name of restructure_domains.py
domain_normalize_role_name(role_name) == strip(lower(role_name), " ")

\* find_domain_for_role: the first domain with a role that holds the name or is
\* held by it, else the first with a role that shares a word with it
find_domain_for_role(role_name) ==
    LET role_lower == domain_normalize_role_name(role_name)
        direct == {i \in 1..Len(DOMAIN_MAPPINGS) :
                      \E m \in Range(DOMAIN_MAPPINGS[i].roles) :
                          \/ contains(role_lower, domain_normalize_role_name(m))
                          \/ contains(domain_normalize_role_name(m), role_lower)}
        partial == {i \in 1..Len(DOMAIN_MAPPINGS) :
                       \E m \in Range(DOMAIN_MAPPINGS[i].roles) :
                           Range(split(role_lower))
                               \cap Range(split(domain_normalize_role_name(m))) # {}}
    IN  IF direct # {} THEN DOMAIN_MAPPINGS[CHOOSE i \in direct : \A j \in direct : i <= j].domain
        ELSE IF partial # {}
        THEN DOMAIN_MAPPINGS[CHOOSE i \in partial : \A j \in partial : i <= j].domain
        ELSE "Specialized Tools & Frameworks"

\* default_categories.get(domain, 'General')
DefaultCategory(domain) ==
    IF \E i \in 1..Len(default_categories) : default_categories[i].domain = domain
    THEN default_categories[CHOOSE i \in 1..Len(default_categories) :
                                default_categories[i].domain = domain].category
    ELSE "General"

\* find_category_for_skill: the first category of the domain with a keyword in
\* the skill name or in the role name
find_category_for_skill(skill_name, role_name, domain) ==
    IF ~\E i \in 1..Len(CATEGORY_MAPPINGS) : CATEGORY_MAPPINGS[i].domain = domain
    THEN "General"
    ELSE LET categories ==
                 CATEGORY_MAPPINGS[CHOOSE i \in 1..Len(CATEGORY_MAPPINGS) :
                                       CATEGORY_MAPPINGS[i].domain = domain].categories
             hits == {i \in 1..Len(categories) :
                         \E keyword \in Range(categories[i].keywords) :
                             \/ contains(lower(skill_name), lower(keyword))
                             \/ contains(lower(role_name), lower(keyword))}
         IN  IF hits # {} THEN categories[CHOOSE i \in hits : \A j \in hits : i <= j].category
             ELSE DefaultCategory(domain)

UmbrellaIndex(dict, domain) ==
    IF \E i \in 1..Len(dict) : dict[i].umbrella = domain
    THEN CHOOSE i \in 1..Len(dict) : dict[i].umbrella = domain
    ELSE 0

CategoryIndex(groups, category) ==
    IF \E i \in 1..Len(groups) : groups[i].category = category
    THEN CHOOSE i \in 1..Len(groups) : groups[i].category = category
    ELSE 0

\* lines 339-343: the subskill joins the category of its domain
AddSubskill(groups, category, subskill) ==
    LET k == CategoryIndex(groups, category) IN
    IF k = 0 THEN Append(groups, [category |-> category, subskills |-> <<subskill>>])
    ELSE [groups EXCEPT ![k].subskills = Append(@, subskill)]

\* lines 322-343: the skills of one role, added to the categories of its domain
RECURSIVE AddRoleSkills(_, _, _, _)
AddRoleSkills(groups, skills, role_name, domain) ==
    IF skills = <<>> THEN groups
    ELSE LET skill == Head(skills) IN
         AddRoleSkills(
             IF skill.name = "" THEN groups
             ELSE AddSubskill(groups,
                              find_category_for_skill(skill.name, role_name, domain),
                              [skill_id |-> skill.skill_id, name |-> skill.name,
                               keywords |-> skill.keywords, links |-> skill.links]),
             Tail(skills), role_name, domain)

\* lines 307-343: domains_dict after the roles
RECURSIVE DomainsDictFrom(_, _)
DomainsDictFrom(roles, dict) ==
    IF roles = <<>> THEN dict
    ELSE LET role_obj == Head(roles)
             domain == find_domain_for_role(role_obj.role)
             k == UmbrellaIndex(dict, domain)
             with_domain == IF k = 0 THEN Append(dict, [umbrella |-> domain, skills |-> <<>>])
                            ELSE dict
             d == UmbrellaIndex(with_domain, domain)
         IN  DomainsDictFrom(Tail(roles),
                 IF role_obj.role = "" THEN dict
                 ELSE [with_domain EXCEPT
                          ![d].skills = AddRoleSkills(@, role_obj.skills, role_obj.role, domain)])

\* sorted(...items()): the records of a dict in the order of a key
RECURSIVE SortedByCategory(_)
SortedByCategory(groups) ==
    IF groups = <<>> THEN <<>>
    ELSE LET m == CHOOSE i \in 1..Len(groups) :
                      \A j \in 1..Len(groups) : ~StrLess(groups[j].category, groups[i].category)
         IN  <<groups[m]>> \o SortedByCategory([i \in 1..(Len(groups) - 1) |->
                                                   IF i < m THEN groups[i] ELSE groups[i + 1]])

RECURSIVE SortedByUmbrella(_)
SortedByUmbrella(dict) ==
    IF dict = <<>> THEN <<>>
    ELSE LET m == CHOOSE i \in 1..Len(dict) :
                      \A j \in 1..Len(dict) : ~StrLess(dict[j].umbrella, dict[i].umbrella)
         IN  <<dict[m]>> \o SortedByUmbrella([i \in 1..(Len(dict) - 1) |->
                                                 IF i < m THEN dict[i] ELSE dict[i + 1]])

HasSubskills(group) == group.subskills # <<>>

HasSkills(domain_data) == domain_data.skills # <<>>

\* lines 347-364: the domains in the order of their names, each with its
\* categories in the order of theirs, the empty ones left out
DomainsList(dict) ==
    LET sorted == SortedByUmbrella(dict) IN
    SelectSeq([i \in 1..Len(sorted) |->
                  [umbrella |-> sorted[i].umbrella,
                   skills |-> SelectSeq(SortedByCategory(sorted[i].skills), HasSubskills)]],
              HasSkills)

\* restructure_to_domains: the domains of the output
restructure_to_domains(roles) == DomainsList(DomainsDictFrom(roles, <<>>))

(***************************************************************************)
(* The Domain Restructurer, pass 2                                         *)
(* (scripts/restructure_roadmap_domains.py).                               *)
(***************************************************************************)
\* ROADMAP_DOMAINS: the name and the keywords of each roadmap domain, in
\* declaration order (the descriptions are text that no branch reads)
ROADMAP_DOMAINS ==
    << [domain |-> "Frontend Developer", keywords |-> <<"frontend", "html", "css", "javascript", "react", "vue", "angular">>],
       [domain |-> "Backend Developer", keywords |-> <<"backend", "server", "api", "database", "nodejs", "python", "java">>],
       [domain |-> "Full Stack Developer", keywords |-> <<"fullstack", "full-stack", "frontend", "backend">>],
       [domain |-> "API Design", keywords |-> <<"api", "rest", "graphql", "design">>],
       [domain |-> "React Developer", keywords |-> <<"react", "reactjs", "jsx">>],
       [domain |-> "Vue Developer", keywords |-> <<"vue", "vuejs", "vue.js">>],
       [domain |-> "Angular Developer", keywords |-> <<"angular", "angularjs", "typescript">>],
       [domain |-> "Next.js Developer", keywords |-> <<"nextjs", "next.js", "react">>],
       [domain |-> "JavaScript Developer", keywords |-> <<"javascript", "js", "ecmascript">>],
       [domain |-> "TypeScript Developer", keywords |-> <<"typescript", "ts">>],
       [domain |-> "Python Developer", keywords |-> <<"python", "py", "django", "flask">>],
       [domain |-> "Java Developer", keywords |-> <<"java", "spring", "jvm">>],
       [domain |-> "Go Developer", keywords |-> <<"go", "golang", "gopher">>],
       [domain |-> "Rust Developer", keywords |-> <<"rust", "rustlang">>],
       [domain |-> "C++ Developer", keywords |-> <<"cpp", "c++", "cpp">>],
       [domain |-> "PHP Developer", keywords |-> <<"php", "laravel", "symfony">>],
       [domain |-> "Android Developer", keywords |-> <<"android", "kotlin", "java", "mobile">>],
       [domain |-> "iOS Developer", keywords |-> <<"ios", "swift", "swiftui", "mobile">>],
       [domain |-> "Flutter Developer", keywords |-> <<"flutter", "dart", "mobile">>],
       [domain |-> "React Native Developer", keywords |-> <<"react-native", "reactnative", "mobile">>],
       [domain |-> "DevOps Engineer", keywords |-> <<"devops", "ci/cd", "docker", "kubernetes">>],
       [domain |-> "AWS Cloud Engineer", keywords |-> <<"aws", "amazon", "cloud", "ec2", "s3">>],
       [domain |-> "Kubernetes Engineer", keywords |-> <<"kubernetes", "k8s", "container">>],
       [domain |-> "Docker Engineer", keywords |-> <<"docker", "container", "containerization">>],
       [domain |-> "Terraform Engineer", keywords |-> <<"terraform", "iac", "infrastructure">>],
       [domain |-> "Linux System Administrator", keywords |-> <<"linux", "unix", "system", "administration">>],
       [domain |-> "AI Engineer", keywords |-> <<"ai", "artificial intelligence", "machine learning", "ml">>],
       [domain |-> "Machine Learning Engineer", keywords |-> <<"machine learning", "ml", "tensorflow", "pytorch">>],
       [domain |-> "AI Data Scientist", keywords |-> <<"data science", "ai", "analytics", "statistics">>],
       [domain |-> "Prompt Engineer", keywords |-> <<"prompt", "llm", "gpt", "ai">>],
       [domain |-> "AI Agents Developer", keywords |-> <<"ai agents", "agents", "llm", "autonomous">>],
       [domain |-> "MLOps Engineer", keywords |-> <<"mlops", "machine learning ops", "deployment">>],
       [domain |-> "Data Engineer", keywords |-> <<"data engineering", "etl", "pipeline", "big data">>],
       [domain |-> "Data Analyst", keywords |-> <<"data analysis", "analytics", "sql", "excel">>],
       [domain |-> "BI Analyst", keywords |-> <<"business intelligence", "bi", "reporting", "dashboard">>],
       [domain |-> "PostgreSQL DBA", keywords |-> <<"postgresql", "postgres", "database", "dba">>],
       [domain |-> "SQL Developer", keywords |-> <<"sql", "database", "query">>],
       [domain |-> "MongoDB Developer", keywords |-> <<"mongodb", "nosql", "database">>],
       [domain |-> "Redis Developer", keywords |-> <<"redis", "cache", "database">>],
       [domain |-> "Cybersecurity Engineer", keywords |-> <<"cybersecurity", "security", "penetration", "ethical hacking">>],
       [domain |-> "Blockchain Developer", keywords |-> <<"blockchain", "crypto", "smart contract", "web3">>],
       [domain |-> "Game Developer", keywords |-> <<"game", "gaming", "unity", "unreal">>],
       [domain |-> "Software Architect", keywords |-> <<"architecture", "design", "system design">>],
       [domain |-> "System Design Engineer", keywords |-> <<"system design", "architecture", "scalability">>],
       [domain |-> "QA Engineer", keywords |-> <<"qa", "testing", "quality assurance", "test">>],
       [domain |-> "Product Manager", keywords |-> <<"product", "management", "pm", "strategy">>],
       [domain |-> "Engineering Manager", keywords |-> <<"engineering management", "leadership", "team">>],
       [domain |-> "UX Designer", keywords |-> <<"ux", "user experience", "design", "ui">>],
       [domain |-> "Technical Writer", keywords |-> <<"technical writing", "documentation", "writing">>],
       [domain |-> "DevRel Engineer", keywords |-> <<"devrel", "developer relations", "advocacy">>],
       [domain |-> "Computer Science", keywords |-> <<"computer science", "cs", "algorithms", "data structures">>],
       [domain |-> "GraphQL Developer", keywords |-> <<"graphql", "api", "query">>],
       [domain |-> "HTML Developer", keywords |-> <<"html", "markup", "web">>],
       [domain |-> "CSS Developer", keywords |-> <<"css", "styling", "design">>],
       [domain |-> "Node.js Developer", keywords |-> <<"nodejs", "node.js", "server", "javascript">>],
       [domain |-> "Git and GitHub", keywords |-> <<"git", "github", "version control">>],
       [domain |-> "Bash/Shell Developer", keywords |-> <<"bash", "shell", "scripting", "linux">>],
       [domain |-> "Cloudflare Developer", keywords |-> <<"cloudflare", "cdn", "cloud">>],
       [domain |-> "ASP.NET Core Developer", keywords |-> <<"asp.net", "dotnet", "c#", "microsoft">>],
       [domain |-> "Spring Boot Developer", keywords |-> <<"spring boot", "spring", "java">>],
       [domain |-> "Laravel Developer", keywords |-> <<"laravel", "php", "framework">>],
       [domain |-> "Kotlin Developer", keywords |-> <<"kotlin", "android", "jvm">>],
       [domain |-> "Swift Developer", keywords |-> <<"swift", "ios", "swiftui">>],
       [domain |-> "Design System", keywords |-> <<"design system", "ui", "components">>],
       [domain |-> "Software Design and Architecture", keywords |-> <<"design", "architecture", "patterns">>],
       [domain |-> "AI Red Teaming", keywords |-> <<"ai red teaming", "security", "ai safety">>] >>


normalize_text(text) == strip(lower(text), " ")

\* lines 313-316: the name, the keywords and the links of a skill as one text
CombinedText(skill_name, skill_keywords, skill_links) ==
    LET skill_text == normalize_text(skill_name)
        all_keywords == join(" ", <<skill_text>> \o
                            [i \in 1..Len(skill_keywords) |-> normalize_text(skill_keywords[i])])
        links_text == lower(join(" ", skill_links))
    IN  all_keywords \o " " \o links_text

ContainsAny(text, terms) == \E t \in terms : contains(text, t)

\* lines 321-322: the keywords and the name of each domain of the table, under
\* normalize_text, and the words of the name
NormalizedDomains ==
    [i \in 1..Len(ROADMAP_DOMAINS) |->
        [domain_keywords |->
             [k \in 1..Len(ROADMAP_DOMAINS[i].keywords) |->
                 normalize_text(ROADMAP_DOMAINS[i].keywords[k])],
         domain_name_lower |-> normalize_text(ROADMAP_DOMAINS[i].domain),
         name_words |-> Range(split(normalize_text(ROADMAP_DOMAINS[i].domain)))]]

\* lines 351-354: what the score of the domain at position i loses when the
\* domain is an AI/ML domain and the text has no AI/ML term
AiPenalty(i, combined_text) ==
    IF /\ ContainsAny(NormalizedDomains[i].domain_name_lower, {"ai", "machine learning", "ml"})
       /\ ~ContainsAny(combined_text,
                       {"ai", "machine learning", "ml", "neural", "tensorflow",
                        "pytorch", "llm", "agent"})
    THEN 5 ELSE 0

\* lines 321-354: the score of the domain at position i of the table
DomainScore(i, combined_text) ==
    LET domain_keywords == NormalizedDomains[i].domain_keywords
        domain_name_lower == NormalizedDomains[i].domain_name_lower
        name_score ==
            IF \/ contains(combined_text, domain_name_lower)
               \/ \E word \in NormalizedDomains[i].name_words :
                      Len(word) > 3 /\ contains(combined_text, word)
            THEN 10 ELSE 0
        primary == Cardinality({k \in 1..Len(domain_keywords) :
                                   k <= 3 /\ contains(combined_text, domain_keywords[k])})
        others == Cardinality({k \in 1..Len(domain_keywords) :
                                  k > 3 /\ contains(combined_text, domain_keywords[k])})
        frontend_penalty ==
            IF /\ contains(domain_name_lower, "frontend")
               /\ ContainsAny(combined_text,
                              {"machine learning", "ml", "backend", "server", "database", "sql"})
            THEN 10 ELSE 0
        backend_penalty ==
            IF /\ contains(domain_name_lower, "backend")
               /\ ContainsAny(combined_text, {"html", "css", "react", "vue", "angular", "frontend"})
            THEN 5 ELSE 0
        ai_penalty == AiPenalty(i, combined_text)
    IN  name_score + 5 * primary + 2 * others - frontend_penalty - backend_penalty - ai_penalty

\* domain_scores: the score of every domain, in the order of the table, as a tuple
DomainScores(skill_name, skill_keywords, skill_links) ==
    LET combined_text == CombinedText(skill_name, skill_keywords, skill_links) IN
    <<>> \o [i \in 1..Len(ROADMAP_DOMAINS) |-> DomainScore(i, combined_text)]

\* MaxIndex with the last of the greatest scores in the place of the first
MaxIndexLast(scores) ==
    CHOOSE i \in 1..Len(scores) :
        /\ \A j \in 1..Len(scores) : scores[j] <= scores[i]
        /\ \A j \in (i + 1)..Len(scores) : scores[j] < scores[i]

\* max(items, key=score): the first of the items with the greatest score
MaxIndex(scores) ==
    CHOOSE i \in 1..Len(scores) :
        /\ \A j \in 1..Len(scores) : scores[j] <= scores[i]
        /\ \A j \in 1..(i - 1) : scores[j] < scores[i]

\* lines 359-364: the domain of the greatest score if that score is positive
BestOf(scores) ==
    LET best == MaxIndex(scores) IN
    IF scores[best] > 0 THEN ROADMAP_DOMAINS[best].domain ELSE None

find_best_roadmap_domain(skill_name, skill_keywords, skill_links) ==
    BestOf(DomainScores(skill_name, skill_keywords, skill_links))

\* keyword.lower() of every keyword of the table
LoweredKeywords ==
    [i \in 1..Len(ROADMAP_DOMAINS) |->
        [k \in 1..Len(ROADMAP_DOMAINS[i].keywords) |-> lower(ROADMAP_DOMAINS[i].keywords[k])]]

\* the last domain of the greatest value
LastMaxIndex(scores) ==
    CHOOSE i \in 1..Len(scores) :
        /\ \A j \in 1..Len(scores) : scores[j] <= scores[i]
        /\ \A j \in (i + 1)..Len(scores) : scores[j] < scores[i]

\* FallbackDomain with score >= best_score in place of score > best_score
FallbackDomainLastOnTies(skill) ==
    LET skill_text == lower(join(" ", <<skill.name>> \o skill.keywords))
        counts == <<>> \o [i \in 1..Len(ROADMAP_DOMAINS) |->
                      Cardinality({k \in 1..Len(LoweredKeywords[i]) :
                                      contains(skill_text, LoweredKeywords[i][k])})]
        best == LastMaxIndex(counts)
    IN  IF counts[best] > 0 THEN ROADMAP_DOMAINS[best].domain ELSE "Frontend Developer"

\* lines 519-534: the domain of an unmapped skill: the first domain with the most
\* keywords in the name and keywords of the skill, or the fallback domain
FallbackDomain(skill) ==
    LET skill_text == lower(join(" ", <<skill.name>> \o skill.keywords))
        counts == <<>> \o [i \in 1..Len(ROADMAP_DOMAINS) |->
                      Cardinality({k \in 1..Len(LoweredKeywords[i]) :
                                      contains(skill_text, LoweredKeywords[i][k])})]
        best == MaxIndex(counts)
    IN  IF counts[best] > 0 THEN ROADMAP_DOMAINS[best].domain ELSE "Frontend Developer"

\* re.sub(r'\s+(in|for|with|using|via)\s+.*$', '', base_key): the text from the
\* first whitespace that one of the words and more whitespace follow
StripPrepClause(base_key) ==
    LET hits == {i \in 1..Len(base_key) :
                    /\ IsSpace(ch(base_key, i))
                    /\ \E w \in {"in", "for", "with", "using", "via"} :
                           startswith(lstrip(SubSeq(base_key, i, Len(base_key)), " "), w \o " ")}
    IN  IF hits = {} THEN base_key
        ELSE SubSeq(base_key, 1, (CHOOSE i \in hits : \A j \in hits : i <= j) - 1)

\* re.sub(r'\s+-\s+.*$', '', base_key)
StripDashClause(base_key) ==
    LET hits == {i \in 1..Len(base_key) :
                    /\ IsSpace(ch(base_key, i))
                    /\ startswith(lstrip(SubSeq(base_key, i, Len(base_key)), " "), "- ")}
    IN  IF hits = {} THEN base_key
        ELSE SubSeq(base_key, 1, (CHOOSE i \in hits : \A j \in hits : i <= j) - 1)

\* lines 373-384: the key under which merge_similar_skills groups a skill
BaseKey(name) ==
    LET words == split(name) IN
    StripDashClause(StripPrepClause(
        IF Len(words) >= 2 THEN lower(words[1] \o " " \o words[2]) ELSE lower(name)))

MergedIndex(merged_skills, base_key) ==
    IF \E i \in 1..Len(merged_skills) : merged_skills[i].base_key = base_key
    THEN CHOOSE i \in 1..Len(merged_skills) : merged_skills[i].base_key = base_key
    ELSE 0

\* MergeOne with the keywords and links of a merged skill dropped
MergeOneFirstOnly(merged_skills, skill) ==
    LET base_key == BaseKey(skill.name)
        k == MergedIndex(merged_skills, base_key)
    IN  IF k = 0
        THEN Append(merged_skills,
                    [base_key |-> base_key, skill_id |-> skill.skill_id, name |-> skill.name,
                     keywords |-> Range(skill.keywords), links |-> Range(skill.links)])
        ELSE merged_skills

\* MergeOne with len(name) >= len(merged name) in place of len(name) > len(merged name)
MergeOneLatestName(merged_skills, skill) ==
    LET base_key == BaseKey(skill.name)
        k == MergedIndex(merged_skills, base_key)
    IN  IF k = 0
        THEN Append(merged_skills,
                    [base_key |-> base_key, skill_id |-> skill.skill_id, name |-> skill.name,
                     keywords |-> Range(skill.keywords), links |-> Range(skill.links)])
        ELSE [merged_skills EXCEPT
                 ![k].keywords = @ \cup Range(skill.keywords),
                 ![k].links = @ \cup Range(skill.links),
                 ![k].name = IF Len(skill.name) >= Len(@) THEN skill.name ELSE @]

\* lines 386-400: the skill starts the record of its key, or joins it.  The links
\* of a record are list(set(...)), a list in no particular order: a set here.
MergeOne(merged_skills, skill) ==
    LET base_key == BaseKey(skill.name)
        k == MergedIndex(merged_skills, base_key)
    IN  IF k = 0
        THEN Append(merged_skills,
                    [base_key |-> base_key, skill_id |-> skill.skill_id, name |-> skill.name,
                     keywords |-> Range(skill.keywords), links |-> Range(skill.links)])
        ELSE [merged_skills EXCEPT
                 ![k].keywords = @ \cup Range(skill.keywords),
                 ![k].links = @ \cup Range(skill.links),
                 ![k].name = IF Len(skill.name) > Len(@) THEN skill.name ELSE @]

RECURSIVE MergeSkillsFrom(_, _)
MergeSkillsFrom(skills, merged_skills) ==
    IF skills = <<>> THEN merged_skills
    ELSE MergeSkillsFrom(Tail(skills), MergeOne(merged_skills, Head(skills)))

\* merge_similar_skills: one record for the skills of each key
merge_similar_skills(skills) ==
    LET merged_skills == MergeSkillsFrom(skills, <<>>) IN
    [i \in 1..Len(merged_skills) |->
        [skill_id |-> merged_skills[i].skill_id,
         name |-> merged_skills[i].name,
         keywords |-> SortedStrings(merged_skills[i].keywords),
         links |-> merged_skills[i].links]]

\* category_patterns of create_categories_for_domain, in declaration order
category_patterns ==
    << [category |-> "Fundamentals", patterns |-> <<"basic", "fundamental", "introduction", "getting started", "overview">>],
       [category |-> "Core Concepts", patterns |-> <<"core", "concept", "theory", "principles">>],
       [category |-> "Frameworks & Libraries", patterns |-> <<"framework", "library", "package", "module">>],
       [category |-> "Tools & Setup", patterns |-> <<"tool", "setup", "installation", "configuration", "environment">>],
       [category |-> "Advanced Topics", patterns |-> <<"advanced", "expert", "optimization", "performance">>],
       [category |-> "Testing", patterns |-> <<"test", "testing", "qa", "quality">>],
       [category |-> "Deployment", patterns |-> <<"deploy", "deployment", "production", "hosting">>],
       [category |-> "Security", patterns |-> <<"security", "auth", "authentication", "authorization", "encryption">>],
       [category |-> "APIs & Integration", patterns |-> <<"api", "rest", "graphql", "integration", "endpoint">>],
       [category |-> "Database", patterns |-> <<"database", "db", "sql", "nosql", "query">>],
       [category |-> "DevOps", patterns |-> <<"devops", "ci/cd", "docker", "kubernetes", "terraform">>],
       [category |-> "Cloud", patterns |-> <<"cloud", "aws", "azure", "gcp", "serverless">>],
       [category |-> "Mobile", patterns |-> <<"mobile", "android", "ios", "react native", "flutter">>],
       [category |-> "Frontend", patterns |-> <<"frontend", "ui", "ux", "html", "css", "javascript">>],
       [category |-> "Backend", patterns |-> <<"backend", "server", "nodejs", "python", "java">>] >>

\* lines 441-450: the first category with a pattern in the name or the keywords
\* of the skill, or None
PatternCategory(skill) ==
    LET combined == lower(skill.name) \o " " \o
                    join(" ", [i \in 1..Len(skill.keywords) |-> lower(skill.keywords[i])])
        hits == {i \in 1..Len(category_patterns) :
                    ContainsAny(combined, Range(category_patterns[i].patterns))}
    IN  IF hits = {} THEN None
        ELSE category_patterns[CHOOSE i \in hits : \A j \in hits : i <= j].category

\* create_categories_for_domain: the categories in the order of their names, then
\* General for the skills of no category
create_categories_for_domain(skills) ==
    LET InCategory(c) == {i \in 1..Len(skills) : PatternCategory(skills[i]) = c}
        Members(c) == LET keep(skill) == PatternCategory(skill) = c IN SelectSeq(skills, keep)
        names == SortedStrings({PatternCategory(skills[i]) : i \in 1..Len(skills)} \ {None})
        categories ==
            [i \in 1..Len(names) |-> [category |-> names[i], subskills |-> Members(names[i])]]
            \o (IF InCategory(None) # {}
                THEN <<[category |-> "General", subskills |-> Members(None)]>>
                ELSE <<>>)
    IN  IF categories = <<>> THEN <<[category |-> "Core Skills", subskills |-> skills]>>
        ELSE categories

\* lines 488-492: the subskills of every category of every domain
RECURSIVE AllSubskills(_)
AllSubskills(domains) ==
    IF domains = <<>> THEN <<>>
    ELSE LET groups == Head(domains).skills
             Flat[i \in 0..Len(groups)] ==
                 IF i = 0 THEN <<>> ELSE Flat[i - 1] \o groups[i].subskills
         IN  Flat[Len(groups)] \o AllSubskills(Tail(domains))

\* lines 501-534: the domain of each skill; the unmapped ones come after the
\* mapped ones in the list of their domain
RECURSIVE AssignDomains(_)
AssignDomains(skills) ==
    IF skills = <<>> THEN <<>>
    ELSE LET skill == Head(skills)
             domain == find_best_roadmap_domain(skill.name, skill.keywords, skill.links)
         IN  <<IF domain # None THEN [domain |-> domain, mapped |-> TRUE]
               ELSE [domain |-> FallbackDomain(skill), mapped |-> FALSE]>>
             \o AssignDomains(Tail(skills))

\* sorted(ROADMAP_DOMAINS.keys())
SortedDomainNames ==
    SortedStrings({ROADMAP_DOMAINS[i].domain : i \in 1..Len(ROADMAP_DOMAINS)})

\* lines 538-559, given the domain of each skill
BuildDomains(all_skills, assigned) ==
    LET Positions(domain, mapped) ==
            {i \in 1..Len(all_skills) :
                assigned[i].domain = domain /\ assigned[i].mapped = mapped}
        Picked(domain, mapped) ==
            LET F[i \in 0..Len(all_skills)] ==
                    IF i = 0 THEN <<>>
                    ELSE IF i \in Positions(domain, mapped) THEN Append(F[i - 1], all_skills[i])
                    ELSE F[i - 1]
            IN  F[Len(all_skills)]
        domain_skills(domain) == Picked(domain, TRUE) \o Picked(domain, FALSE)
        present(domain) == \E i \in 1..Len(assigned) : assigned[i].domain = domain
        names == SelectSeq(SortedDomainNames, present)
    IN  [i \in 1..Len(names) |->
            [domain |-> names[i],
             categories |->
                 create_categories_for_domain(merge_similar_skills(domain_skills(names[i])))]]

\* restructure_to_roadmap_domains: the domains of the output
restructure_to_roadmap_domains(domains) ==
    BuildDomains(AllSubskills(domains), AssignDomains(AllSubskills(domains)))


(***************************************************************************)
(* find_best_roadmap_domain on one skill.                                  *)
(***************************************************************************)
ScorerNames == {"Kubernetes", "mobile", "container", "plan", "React Hooks", "SQL"}

ScorerKeywords ==
    {<<>>, <<"kubernetes", "k8s">>, <<"backend">>, <<"mobile">>, <<"llm">>}

ScorerLinks == {<<>>, <<"https://a.io/docker">>}

ScorerInit ==
    /\ NotScorerIdle
    /\ sc_pc = "start"
    /\ sc_skill \in [name : ScorerNames, keywords : ScorerKeywords, links : ScorerLinks]
    /\ sc_scores = <<>>
    /\ sc_best = None

\* find_best_roadmap_domain(skill_name, skill_keywords, skill_links)
ScoreSkill ==
    /\ sc_pc = "start"
    /\ sc_scores' = DomainScores(sc_skill.name, sc_skill.keywords, sc_skill.links)
    /\ sc_best' = find_best_roadmap_domain(sc_skill.name, sc_skill.keywords, sc_skill.links)
    /\ sc_pc' = "scored"
    /\ UNCHANGED sc_skill
    /\ UNCHANGED notScorerVars

ScorerNext == ScoreSkill

SpecScorer == ScorerInit /\ [][ScorerNext]_vars

(***************************************************************************)
(* Claims about find_best_roadmap_domain.                                  *)
(***************************************************************************)
\* the position of a domain in the table
DomainIndex(domain) ==
    CHOOSE i \in 1..Len(ROADMAP_DOMAINS) : ROADMAP_DOMAINS[i].domain = domain

\* the positions of the domains with the greatest score
TopScored ==
    {i \in 1..Len(sc_scores) : \A j \in 1..Len(sc_scores) : sc_scores[j] <= sc_scores[i]}

\* C10: find_best_roadmap_domain returns the domain of the greatest score when
\* that score is positive, the first of the table among the domains tied at it,
\* and no domain when no score is positive; the skill Kubernetes with keywords
\* kubernetes and k8s scores higher for Kubernetes Engineer than for Frontend
\* Developer and is given to Kubernetes Engineer.
C10_BestDomain ==
    sc_pc = "scored" =>
        /\ \A i \in TopScored :
               /\ sc_scores[i] > 0 /\ (\A j \in TopScored : i <= j)
                      => sc_best = ROADMAP_DOMAINS[i].domain
               /\ sc_scores[i] <= 0 => sc_best = None
        /\ (sc_skill.name = "Kubernetes" /\ sc_skill.keywords = <<"kubernetes", "k8s">>)
               => /\ sc_scores[DomainIndex("Kubernetes Engineer")]
                         > sc_scores[DomainIndex("Frontend Developer")]
                  /\ sc_best = "Kubernetes Engineer"

\* a skill with several domains tied at a positive greatest score is given to
\* the first of them
C10_Witness ==
    /\ sc_pc = "scored"
    /\ Cardinality(TopScored) > 1
    /\ \E i \in TopScored :
           /\ sc_scores[i] > 0
           /\ \A j \in TopScored : i <= j
           /\ sc_best = ROADMAP_DOMAINS[i].domain

\* the domains named for AI or machine learning
AiNamedDomains ==
    {"AI Engineer", "Machine Learning Engineer", "AI Data Scientist", "AI Agents Developer",
     "MLOps Engineer", "AI Red Teaming"}

\* the text of the skill that is scored
ScoredText == CombinedText(sc_skill.name, sc_skill.keywords, sc_skill.links)

\* the text has none of the AI/ML terms
NoAiTerm(text) ==
    ~ContainsAny(text, {"ai", "machine learning", "ml", "neural", "tensorflow", "pytorch",
                        "llm", "agent"})

\* the score of the domain at position i before the AI/ML penalty
ScoreBeforeAiPenalty(i) == DomainScore(i, ScoredText) + AiPenalty(i, ScoredText)

\* C20: the score of a domain is reduced by the AI/ML penalty of 5 only when the
\* domain is one of the domains named for AI or machine learning and the text of
\* the skill has no AI/ML term; the score of every other domain is never reduced
\* by it.
C20_AiPenaltyOnlyAiDomains ==
    sc_pc = "scored" =>
        \A i \in 1..Len(sc_scores) :
            sc_scores[i] =
                ScoreBeforeAiPenalty(i)
                    - (IF ROADMAP_DOMAINS[i].domain \in AiNamedDomains /\ NoAiTerm(ScoredText)
                       THEN 5 ELSE 0)

(***************************************************************************)
(* The two passes of the Domain Restructurer on a Cleaner output.          *)
(***************************************************************************)
MaxDomainSkills == 2

DomainRolePool == {"Backend", "Qa"}

DomainSkillPool ==
    { [section_name |-> "main", skill_text |-> "Kubernetes", links |-> <<>>],
      [section_name |-> "main", skill_text |-> "React Hooks State", links |-> <<>>],
      [section_name |-> "Hooks", skill_text |-> "React Hooks Effect",
       links |-> <<"https://a.io/hooks">>],
      [section_name |-> "main", skill_text |-> "Autonomous Crypto", links |-> <<>>],
      [section_name |-> "main", skill_text |-> "Plan", links |-> <<>>] }

\* the raw skills of a run, each with the name of its role
DomainInputs ==
    UNION {[1..n -> [role_name : DomainRolePool, skill : DomainSkillPool]] :
              n \in 1..MaxDomainSkills}

\* lines 235-291 for every raw skill: roles_dict after them
RECURSIVE ProcessAll(_, _, _)
ProcessAll(raw, seen, dict) ==
    IF raw = <<>> THEN dict
    ELSE LET processed == ProcessOne(seen, dict, Head(raw).role_name, Head(raw).skill) IN
         ProcessAll(Tail(raw), processed.seen, processed.dict)

\* clean_roadmaps: the roles of the cleaned document
clean_roadmaps(raw) == FinalizeRoles(merge_duplicate_roles(ProcessAll(raw, {}, <<>>)))

DomainsInit ==
    /\ NotDomainsIdle
    /\ dm_pc = "start"
    /\ \E raw \in DomainInputs : dm_input = clean_roadmaps(raw)
    /\ dm_pass1 = <<>>
    /\ dm_pass2 = <<>>

\* restructure_to_domains(INPUT_FILE, OUTPUT_FILE) of restructure_domains.py
Pass1 ==
    /\ dm_pc = "start"
    /\ dm_pass1' = restructure_to_domains(dm_input)
    /\ dm_pc' = "pass1"
    /\ UNCHANGED <<dm_input, dm_pass2>>
    /\ UNCHANGED notDomainsVars

\* restructure_to_roadmap_domains(INPUT_FILE, OUTPUT_FILE) on the output of pass 1
Pass2 ==
    /\ dm_pc = "pass1"
    /\ dm_pass2' = restructure_to_roadmap_domains(dm_pass1)
    /\ dm_pc' = "pass2"
    /\ UNCHANGED <<dm_input, dm_pass1>>
    /\ UNCHANGED notDomainsVars

DomainsNext == Pass1 \/ Pass2

SpecDomains == DomainsInit /\ [][DomainsNext]_vars

(***************************************************************************)
(* Claims about the Domain Restructurer.                                   *)
(***************************************************************************)
\* the skills of the Cleaner output
CleanedSkills ==
    UNION {Range(dm_input[i].skills) : i \in 1..Len(dm_input)}

\* the places of the subskills of the pass-2 output: domain, category, position
Pass2Places ==
    UNION {UNION {{<<d, c, p>> : p \in 1..Len(dm_pass2[d].categories[c].subskills)} :
                     c \in 1..Len(dm_pass2[d].categories)} :
              d \in 1..Len(dm_pass2)}

SubskillAt(place) == dm_pass2[place[1]].categories[place[2]].subskills[place[3]]

\* the places of the pass-2 output with the skill_id of the skill
PlacesOf(skill) == {place \in Pass2Places : SubskillAt(place).skill_id = skill.skill_id}

\* the domain pass 2 gives the skill
AssignedDomain(skill) ==
    LET domain == find_best_roadmap_domain(skill.name, skill.keywords, skill.links) IN
    IF domain # None THEN domain ELSE FallbackDomain(skill)

\* the places, in the domain of the skill, of a record of the skills that share
\* its first two words, with all of its keywords and links
Carriers(skill) ==
    {place \in Pass2Places :
        /\ dm_pass2[place[1]].domain = AssignedDomain(skill)
        /\ BaseKey(SubskillAt(place).name) = BaseKey(skill.name)
        /\ Range(skill.keywords) \subseteq Range(SubskillAt(place).keywords)
        /\ Range(skill.links) \subseteq SubskillAt(place).links}

\* C2 as stated: after pass 1 and pass 2 on a Cleaner output every skill of the
\* Cleaner output is in exactly one category of exactly one domain of the pass-2
\* output, or its domain is not in the output.
C2_EverySkillOnceOriginal ==
    dm_pc = "pass2" =>
        \A skill \in CleanedSkills :
            \/ Cardinality(PlacesOf(skill)) = 1
            \/ \A d \in 1..Len(dm_pass2) : dm_pass2[d].domain # AssignedDomain(skill)

\* C2: after pass 1 and pass 2 on a Cleaner output every skill of the Cleaner
\* output is carried by exactly one subskill of the pass-2 output, in one
\* category of its domain: the record of the skills of that domain that share
\* its first two words, which holds all of its keywords and links; its domain
\* is never left out.
C2_EverySkillCarried ==
    dm_pc = "pass2" =>
        \A skill \in CleanedSkills :
            /\ Cardinality(Carriers(skill)) = 1
            /\ \E d \in 1..Len(dm_pass2) : dm_pass2[d].domain = AssignedDomain(skill)

\* a skill merged into the record of another: its skill_id is not in the
\* output, its keywords and links are
C2_Witness ==
    /\ dm_pc = "pass2"
    /\ \E skill \in CleanedSkills :
           /\ PlacesOf(skill) = {}
           /\ Cardinality(Carriers(skill)) = 1


(***************************************************************************)
(* The write of an output file: open(output_file, 'w') and json.dump       *)
(* (scripts/clean_roadmaps.py, lines 328-329; the same two lines end       *)
(* write_json_output and both passes of the Domain Restructurer).          *)
(***************************************************************************)
MaxWriteRoles == 2

WriteRolePool == {"Backend", "Qa"}

\* the chunks json.dump(..., indent=2) writes for one role; its skills are left
\* out of the document
RoleChunks(role) ==
    <<"{", "\n      ", "\"role\"", ": ", "\"" \o role \o "\"", ",\n      ",
      "\"skills\"", ": ", "[]", "\n    ", "}">>

RECURSIVE MoreRoleChunks(_)
MoreRoleChunks(roles) ==
    IF roles = <<>> THEN <<>>
    ELSE <<",\n    ">> \o RoleChunks(Head(roles)) \o MoreRoleChunks(Tail(roles))

\* the chunks json.dump writes, one write each, for {'roles': roles}
JsonChunks(roles) ==
    <<"{", "\n  ", "\"roles\"", ": ">>
    \o (IF roles = <<>> THEN <<"[]">>
        ELSE <<"[\n    ">> \o RoleChunks(Head(roles)) \o MoreRoleChunks(Tail(roles))
             \o <<"\n  ", "]">>)
    \o <<"\n", "}">>

\* the complete document
JsonText(roles) == join("", JsonChunks(roles))

WriteDocs == UNION {[1..n -> WriteRolePool] : n \in 0..MaxWriteRoles}

\* before the run the file is empty or holds a complete document; the write of
\* any one chunk may raise (a character the encoding refuses, an I/O error)
WriterInit ==
    /\ NotWriterIdle
    /\ wr_pc = "start"
    /\ wr_doc \in WriteDocs
    /\ wr_old \in {"", JsonText(<<"Backend">>)}
    /\ wr_file = wr_old
    /\ wr_chunks = <<>>
    /\ wr_fails_at \in 0..Len(JsonChunks(wr_doc))

\* open(output_file, 'w', encoding='utf-8'): the file is truncated
OpenFile ==
    /\ wr_pc = "start"
    /\ wr_file' = ""
    /\ wr_chunks' = JsonChunks(wr_doc)
    /\ wr_pc' = "open"
    /\ UNCHANGED <<wr_doc, wr_old, wr_fails_at>>
    /\ UNCHANGED notWriterVars

\* the position in the document of the chunk to write next
NextChunk == Len(JsonChunks(wr_doc)) - Len(wr_chunks) + 1

\* json.dump: one chunk more reaches the file
WriteChunk ==
    /\ wr_pc = "open"
    /\ wr_chunks # <<>>
    /\ NextChunk # wr_fails_at
    /\ wr_file' = wr_file \o Head(wr_chunks)
    /\ wr_chunks' = Tail(wr_chunks)
    /\ UNCHANGED <<wr_pc, wr_doc, wr_old, wr_fails_at>>
    /\ UNCHANGED notWriterVars

\* the write of a chunk raises: the with statement closes the file, the
\* exception ends the run
WriteFails ==
    /\ wr_pc = "open"
    /\ wr_chunks # <<>>
    /\ NextChunk = wr_fails_at
    /\ wr_pc' = "failed"
    /\ UNCHANGED <<wr_doc, wr_old, wr_chunks, wr_fails_at, wr_file>>
    /\ UNCHANGED notWriterVars

\* the end of the with statement after the last chunk
CloseFile ==
    /\ wr_pc = "open"
    /\ wr_chunks = <<>>
    /\ wr_pc' = "closed"
    /\ UNCHANGED <<wr_doc, wr_old, wr_chunks, wr_fails_at, wr_file>>
    /\ UNCHANGED notWriterVars

WriterNext == OpenFile \/ WriteChunk \/ WriteFails \/ CloseFile

SpecWrite == WriterInit /\ [][WriterNext]_vars

(***************************************************************************)
(* Claims about the write of an output file.                               *)
(***************************************************************************)
\* C9: at every point of a run, one in which the serialization fails partway
\* included, the output file holds its complete previous content or the
\* complete new document.
C9_AtomicWrite ==
    wr_pc # "idle" => (wr_file = wr_old \/ wr_file = JsonText(wr_doc))


(***************************************************************************)
(* merge_similar_skills on the skills that pass 2 assigned to one domain.  *)
(***************************************************************************)
\* the most skills of the domain
MaxMergeSkills == 3

MergeSkill(skill_id, name) ==
    [skill_id |-> skill_id, name |-> name, keywords |-> SortedStrings(Range(split(name))),
     links |-> <<>>]

MergeSkillWithLinks(skill_id, name, links) == [MergeSkill(skill_id, name) EXCEPT !.links = links]

\* skills as the Cleaner names them: lower case, stop words removed
MergeSkillPool ==
    { MergeSkill("python-using-django", "python using django"),
      MergeSkill("python-via-flask", "python via flask"),
      MergeSkillWithLinks("react-hooks-state", "react hooks state",
                          <<"https://a.io/hooks", "https://a.io/state">>),
      MergeSkillWithLinks("react-hooks-effect", "react hooks effect", <<"https://a.io/hooks">>),
      MergeSkillWithLinks("react-hooks-store", "react hooks store", <<"https://a.io/store">>),
      MergeSkill("docker", "docker") }

MergeInputs ==
    UNION { {q \in [1..n -> MergeSkillPool] : \A i, j \in 1..n : i # j => q[i] # q[j]} :
                n \in 1..MaxMergeSkills }

MergeInit ==
    /\ NotMergeIdle
    /\ mg_pc = "start"
    /\ mg_skills \in MergeInputs
    /\ mg_merged = <<>>

\* restructure_to_roadmap_domains line 547: the skills of a domain are merged
MergeSimilar ==
    /\ mg_pc = "start"
    /\ mg_merged' = merge_similar_skills(mg_skills)
    /\ mg_pc' = "merged"
    /\ UNCHANGED mg_skills
    /\ UNCHANGED notMergeVars

MergeNext == MergeSimilar

SpecMerge == MergeInit /\ [][MergeNext]_vars

\* the first two words of a name, or the name when it has fewer
FirstTwoWords(name) ==
    LET words == split(name) IN
    IF Len(words) >= 2 THEN words[1] \o " " \o words[2] ELSE name

\* the name without its trailing in/for/with/using/via clause, then its first
\* two words, in lower case
StrippedKey(name) == FirstTwoWords(StripPrepClause(lower(name)))

\* one record holds the keywords of both skills
MergedTogether(a, b) ==
    \E r \in 1..Len(mg_merged) :
        Range(a.keywords) \cup Range(b.keywords) \subseteq Range(mg_merged[r].keywords)

\* C19: two skills of a domain are merged into one record exactly when their
\* names without the trailing in/for/with/using/via clause have the same first
\* two words, compared without case.
C19_MergedByStrippedKey ==
    mg_pc = "merged" =>
        \A i, j \in 1..Len(mg_skills) :
            MergedTogether(mg_skills[i], mg_skills[j])
                <=> StrippedKey(mg_skills[i].name) = StrippedKey(mg_skills[j].name)

(***************************************************************************)
(* The Structurer's pure functions                                         *)
(* (scripts/create_role_skill_structure.py).                               *)
(*                                                                         *)
(* A markdown file of the tree is a record: its path below                 *)
(* developer-roadmap, whether it can be read, and the matches of the       *)
(* pattern [@type@title](url) in its text, in the order of the text.       *)
(***************************************************************************)
TECH_SKILLS ==
    <<
       [key |-> "javascript", terms |-> <<"javascript", "js", "ecmascript", "es6", "es2015">>],
       [key |-> "typescript", terms |-> <<"typescript", "ts">>],
       [key |-> "python", terms |-> <<"python", "py", "django", "flask", "fastapi">>],
       [key |-> "java", terms |-> <<"java", "spring", "jvm", "maven">>],
       [key |-> "go", terms |-> <<"go", "golang", "gopher">>],
       [key |-> "rust", terms |-> <<"rust", "rustlang">>],
       [key |-> "cpp", terms |-> <<"c++", "cpp", "cplusplus">>],
       [key |-> "php", terms |-> <<"php", "laravel", "symfony">>],
       [key |-> "ruby", terms |-> <<"ruby", "rails", "ror">>],
       [key |-> "swift", terms |-> <<"swift", "swiftui">>],
       [key |-> "kotlin", terms |-> <<"kotlin", "android">>],
       [key |-> "dart", terms |-> <<"dart", "flutter">>],
       [key |-> "sql", terms |-> <<"sql", "postgresql", "mysql", "sqlite">>],
       [key |-> "html", terms |-> <<"html", "html5">>],
       [key |-> "css", terms |-> <<"css", "css3", "sass", "scss", "less">>],
       [key |-> "bash", terms |-> <<"bash", "shell", "sh", "zsh">>],
       [key |-> "react", terms |-> <<"react", "reactjs", "jsx">>],
       [key |-> "vue", terms |-> <<"vue", "vuejs", "nuxt">>],
       [key |-> "angular", terms |-> <<"angular", "angularjs">>],
       [key |-> "nextjs", terms |-> <<"nextjs", "next.js">>],
       [key |-> "nodejs", terms |-> <<"nodejs", "node.js", "express">>],
       [key |-> "react-native", terms |-> <<"react-native", "reactnative">>],
       [key |-> "flutter", terms |-> <<"flutter", "dart">>],
       [key |-> "spring-boot", terms |-> <<"spring boot", "springboot">>],
       [key |-> "laravel", terms |-> <<"laravel">>],
       [key |-> "aspnet", terms |-> <<"asp.net", "dotnet", "c#">>],
       [key |-> "mongodb", terms |-> <<"mongodb", "mongo">>],
       [key |-> "redis", terms |-> <<"redis">>],
       [key |-> "postgresql", terms |-> <<"postgresql", "postgres">>],
       [key |-> "docker", terms |-> <<"docker", "container">>],
       [key |-> "kubernetes", terms |-> <<"kubernetes", "k8s">>],
       [key |-> "aws", terms |-> <<"aws", "amazon", "ec2", "s3", "lambda">>],
       [key |-> "terraform", terms |-> <<"terraform">>],
       [key |-> "git", terms |-> <<"git", "github">>],
       [key |-> "linux", terms |-> <<"linux", "unix">>],
       [key |-> "tensorflow", terms |-> <<"tensorflow", "tf">>],
       [key |-> "pytorch", terms |-> <<"pytorch">>],
       [key |-> "machine-learning", terms |-> <<"machine learning", "ml", "deep learning">>],
       [key |-> "ai", terms |-> <<"ai", "artificial intelligence", "llm", "gpt">>],
       [key |-> "graphql", terms |-> <<"graphql">>],
       [key |-> "rest", terms |-> <<"rest", "restful", "api">>],
       [key |-> "blockchain", terms |-> <<"blockchain", "crypto", "ethereum">>],
       [key |-> "cybersecurity", terms |-> <<"security", "cybersecurity", "penetration">>]
    >>

\* content_file_path None, or the path of no file
NoFile == [path |-> None, readable |-> FALSE, matches |-> <<>>]

\* type_mapping (lines 102-111 and 310-319)
type_mapping ==
    <<[tag |-> "official", type |-> "documentation"], [tag |-> "article", type |-> "article"],
      [tag |-> "video", type |-> "video"], [tag |-> "course", type |-> "course"],
      [tag |-> "book", type |-> "book"], [tag |-> "podcast", type |-> "podcast"],
      [tag |-> "opensource", type |-> "official"], [tag |-> "feed", type |-> "article"]>>

\* type_mapping.get(match_type.lower(), 'article')
MappedType(match_type) ==
    IF \E i \in 1..Len(type_mapping) : type_mapping[i].tag = lower(match_type)
    THEN type_mapping[CHOOSE i \in 1..Len(type_mapping) : type_mapping[i].tag = lower(match_type)].type
    ELSE "article"

\* extract_resource_type_from_markdown: the url and type of every match, in the
\* order of the text; no path, no file or a file that cannot be read give none
extract_resource_type_from_markdown(content_file_path) ==
    IF content_file_path = NoFile THEN <<>>
    ELSE IF ~content_file_path.readable THEN <<>>
    ELSE [i \in 1..Len(content_file_path.matches) |->
             [url |-> strip(content_file_path.matches[i].url, " "),
              resource_type |-> MappedType(content_file_path.matches[i].type)]]

\* url in resource_map
InResourceMap(resource_map, url) == \E i \in 1..Len(resource_map) : resource_map[i].url = url

\* resource_map[url]: the last match of the url set the entry
ResourceMapAt(resource_map, url) ==
    resource_map[CHOOSE i \in 1..Len(resource_map) :
                     /\ resource_map[i].url = url
                     /\ \A j \in (i + 1)..Len(resource_map) : resource_map[j].url # url].resource_type

\* the heuristics with the course terms looked for first
TypeByHeuristicsCourseFirst(url, link_title) ==
    LET combined == lower(url) \o " " \o lower(link_title) IN
    IF ContainsAny(combined, {"course", "udemy", "coursera", "edx", "pluralsight", "/learn/",
                              "/tutorial/", "codecademy"})
    THEN "course"
    ELSE IF ContainsAny(combined, {"/docs/", "docs.", "documentation", "developer.mozilla.org",
                                   "docs.rs", "pkg.go.dev", "api.", ".org/docs", ".com/docs"})
    THEN "documentation"
    ELSE IF ContainsAny(combined, {"youtube.com", "youtu.be", "watch?v=", "playlist", "/video/",
                                   "vimeo.com"})
    THEN "video"
    ELSE IF ContainsAny(combined, {"book", ".pdf", "epub", "oreilly"})
    THEN "book"
    ELSE IF ContainsAny(combined, {"podcast", "soundcloud", "spotify", "apple.com/podcasts"})
    THEN "podcast"
    ELSE IF ContainsAny(combined, {"medium.com", "blog.", "/blog/", "dev.to", "hashnode", "article"})
    THEN "article"
    ELSE IF ContainsAny(combined, {"github.com", "official", ".org/", ".io/"})
    THEN "official"
    ELSE "article"

\* lines 131-164: the type the url and the title give
TypeByHeuristics(url, link_title) ==
    LET combined == lower(url) \o " " \o lower(link_title) IN
    IF ContainsAny(combined, {"/docs/", "docs.", "documentation", "developer.mozilla.org",
                              "docs.rs", "pkg.go.dev", "api.", ".org/docs", ".com/docs"})
    THEN "documentation"
    ELSE IF ContainsAny(combined, {"youtube.com", "youtu.be", "watch?v=", "playlist", "/video/",
                                   "vimeo.com"})
    THEN "video"
    ELSE IF ContainsAny(combined, {"course", "udemy", "coursera", "edx", "pluralsight", "/learn/",
                                   "/tutorial/", "codecademy"})
    THEN "course"
    ELSE IF ContainsAny(combined, {"book", ".pdf", "epub", "oreilly"})
    THEN "book"
    ELSE IF ContainsAny(combined, {"podcast", "soundcloud", "spotify", "apple.com/podcasts"})
    THEN "podcast"
    ELSE IF ContainsAny(combined, {"medium.com", "blog.", "/blog/", "dev.to", "hashnode", "article"})
    THEN "article"
    ELSE IF ContainsAny(combined, {"github.com", "official", ".org/", ".io/"})
    THEN "official"
    ELSE "article"

\* detect_resource_type with the type of the last match of the file taken for
\* every url
detect_resource_type_any(url, link_title, content_file_path) ==
    LET resource_map == extract_resource_type_from_markdown(content_file_path) IN
    IF url = "" THEN "article"
    ELSE IF content_file_path # NoFile /\ resource_map # <<>>
    THEN resource_map[Len(resource_map)].resource_type
    ELSE TypeByHeuristics(url, link_title)

\* detect_resource_type(url, title, content_file_path)
detect_resource_type(url, link_title, content_file_path) ==
    LET resource_map == extract_resource_type_from_markdown(content_file_path) IN
    IF url = "" THEN "article"
    ELSE IF content_file_path # NoFile /\ InResourceMap(resource_map, url)
    THEN ResourceMapAt(resource_map, url)
    ELSE TypeByHeuristics(url, link_title)

\* lines 171-183: the length of the longest term of the key at position k that
\* the text holds, 0 for none
TermScore(k, combined) ==
    LET hits == {t \in 1..Len(TECH_SKILLS[k].terms) : contains(combined, TECH_SKILLS[k].terms[t])}
    IN  IF hits = {} THEN 0
        ELSE Len(TECH_SKILLS[k].terms[CHOOSE t \in hits :
                    \A u \in hits : Len(TECH_SKILLS[k].terms[u]) <= Len(TECH_SKILLS[k].terms[t])])

TermScores(combined) == <<>> \o [k \in 1..Len(TECH_SKILLS) |-> TermScore(k, combined)]

NamePrefixes ==
    <<"learn", "understand", "master", "guide to", "introduction to", "getting started with",
      "how to">>

NameSuffixes ==
    <<"tutorial", "guide", "course", "basics", "advanced", "introduction", "fundamentals">>

\* re.sub(r'^(learn|...|how to)\s+', '', name_clean)
StripNamePrefix(name) ==
    LET hits == {i \in 1..Len(NamePrefixes) :
                    /\ startswith(name, NamePrefixes[i])
                    /\ Len(name) > Len(NamePrefixes[i])
                    /\ IsSpace(ch(name, Len(NamePrefixes[i]) + 1))}
    IN  IF hits = {} THEN name
        ELSE LET p == NamePrefixes[CHOOSE i \in hits : \A j \in hits : i <= j]
             IN  lstrip(SubSeq(name, Len(p) + 1, Len(name)), " ")

\* re.sub(r'\s+(tutorial|...|fundamentals)$', '', name_clean)
StripNameSuffix(name) ==
    LET hits == {i \in 1..Len(NameSuffixes) :
                    /\ endswith(name, NameSuffixes[i])
                    /\ Len(name) > Len(NameSuffixes[i])
                    /\ IsSpace(ch(name, Len(name) - Len(NameSuffixes[i])))}
    IN  IF hits = {} THEN name
        ELSE LET w == NameSuffixes[CHOOSE i \in hits : \A j \in hits : i <= j]
             IN  rstrip(SubSeq(name, 1, Len(name) - Len(w)), " ")

\* the first word of the skill text, always title-cased
SkillOfFirstWordTitled(words) ==
    title(replace(words[1], "-", " "))

\* lines 193-208: the skill that the first word of the cleaned name gives
SkillOfFirstWord(words) ==
    LET first_word == words[1]
        keys == {k \in 1..Len(TECH_SKILLS) :
                    \/ first_word \in Range(TECH_SKILLS[k].terms)
                    \/ first_word = TECH_SKILLS[k].key}
    IN  IF keys # {} THEN TECH_SKILLS[CHOOSE k \in keys : \A j \in keys : k <= j].key
        ELSE IF first_word \in {"react", "vue", "angular", "node", "express", "mongodb", "redis",
                                "docker", "kubernetes"}
        THEN first_word
        ELSE title(replace(first_word, "-", " "))

\* lines 180-208, given the scores of the keys
SkillOfScores(skill_name, scores) ==
    IF scores[MaxIndex(scores)] > 0 THEN TECH_SKILLS[MaxIndex(scores)].key
    ELSE IF split(StripNameSuffix(StripNamePrefix(lower(skill_name)))) # <<>>
    THEN SkillOfFirstWord(split(StripNameSuffix(StripNamePrefix(lower(skill_name)))))
    ELSE "General"

\* extract_skill_from_name(skill_name, keywords, role_name)
extract_skill_from_name(skill_name, keywords, role_name) ==
    SkillOfScores(skill_name,
                  TermScores(lower(skill_name \o " " \o join(" ", keywords) \o " " \o role_name)))

role_mapping ==
    <<[key |-> "frontend", value |-> "Frontend Developer"],
      [key |-> "backend", value |-> "Backend Developer"],
      [key |-> "full stack", value |-> "Full Stack Developer"],
      [key |-> "full-stack", value |-> "Full Stack Developer"],
      [key |-> "ai engineer", value |-> "AI Engineer"],
      [key |-> "ai agents", value |-> "AI Agents Developer"],
      [key |-> "machine learning", value |-> "Machine Learning Engineer"],
      [key |-> "data engineer", value |-> "Data Engineer"],
      [key |-> "data analyst", value |-> "Data Analyst"],
      [key |-> "devops", value |-> "DevOps Engineer"],
      [key |-> "cybersecurity", value |-> "Cybersecurity Engineer"],
      [key |-> "blockchain", value |-> "Blockchain Developer"],
      [key |-> "game developer", value |-> "Game Developer"],
      [key |-> "software architect", value |-> "Software Architect"],
      [key |-> "qa", value |-> "QA Engineer"],
      [key |-> "product manager", value |-> "Product Manager"],
      [key |-> "engineering manager", value |-> "Engineering Manager"],
      [key |-> "ux design", value |-> "UX Designer"],
      [key |-> "technical writer", value |-> "Technical Writer"],
      [key |-> "devrel", value |-> "DevRel Engineer"]>>

\* normalize_role_name of create_role_skill_structure.py
structure_normalize_role_name(role_name) ==
    LET hits == {i \in 1..Len(role_mapping) : contains(lower(role_name), role_mapping[i].key)} IN
    IF hits # {} THEN role_mapping[CHOOSE i \in hits : \A j \in hits : i <= j].value
    ELSE title(role_name)

\* re.search(r'@(\w+)@', link_text): the word of the first type tag, or None
RECURSIVE FirstTypeTag(_)
FirstTypeTag(s) ==
    IF s = "" THEN None
    ELSE LET run == IF Head(s) = "@" THEN WordRun(Tail(s)) ELSE "" IN
         IF run # "" /\ Len(s) >= Len(run) + 2 /\ ch(s, Len(run) + 2) = "@"
         THEN run
         ELSE FirstTypeTag(Tail(s))

\* lines 284-292: the first source file of the role, if the tree holds it
SourceFileOf(role_obj, tree) ==
    IF role_obj.source_files = <<>> THEN NoFile
    ELSE LET source_path == role_obj.source_files[1]
             hits == {i \in 1..Len(tree) : tree[i].path = replace(source_path, "\\", "/")}
         IN  IF /\ \/ contains(source_path, "src\\data\\roadmaps")
                   \/ contains(source_path, "src/data/roadmaps")
                /\ hits # {}
             THEN tree[CHOOSE i \in hits : TRUE]
             ELSE NoFile

\* lines 304-338: the resource of a link with a url
ResourceOf(link_obj, skill_name, source_file) ==
    [link |-> link_obj.href,
     type |-> IF link_obj.text = "" THEN detect_resource_type(link_obj.href, skill_name, source_file)
              ELSE IF FirstTypeTag(link_obj.text) # None
                   THEN MappedType(FirstTypeTag(link_obj.text))
              ELSE detect_resource_type(link_obj.href, link_obj.text, source_file),
     title |-> IF strip(RemoveTypeTags(link_obj.text), " ") # ""
               THEN strip(RemoveTypeTags(link_obj.text), " ")
               ELSE title(skill_name)]

\* lines 295-338: the resources of the links of a skill
RECURSIVE ResourcesFrom(_, _, _)
ResourcesFrom(skill_links, skill_name, source_file) ==
    IF skill_links = <<>> THEN <<>>
    ELSE (IF Head(skill_links).href # ""
          THEN <<ResourceOf(Head(skill_links), skill_name, source_file)>>
          ELSE <<>>) \o ResourcesFrom(Tail(skill_links), skill_name, source_file)

LongWord(w) == Len(w) > 2

StructRoleIndex(structure, role) ==
    IF \E i \in 1..Len(structure) : structure[i].role = role
    THEN CHOOSE i \in 1..Len(structure) : structure[i].role = role
    ELSE 0

StructSkillIndex(skills, main_skill) ==
    IF \E i \in 1..Len(skills) : skills[i].skill = main_skill
    THEN CHOOSE i \in 1..Len(skills) : skills[i].skill = main_skill
    ELSE 0

\* skills[main_skill].append(topic_entry)
AppendTopic(skills, main_skill, topic_entry) ==
    IF StructSkillIndex(skills, main_skill) = 0
    THEN Append(skills, [skill |-> main_skill, topics |-> <<topic_entry>>])
    ELSE [skills EXCEPT ![StructSkillIndex(skills, main_skill)].topics = Append(@, topic_entry)]

\* line 345: structure[normalized_role][main_skill].append(topic_entry)
AddTopic(structure, role, main_skill, topic_entry) ==
    IF StructRoleIndex(structure, role) = 0
    THEN Append(structure, [role |-> role, skills |-> AppendTopic(<<>>, main_skill, topic_entry)])
    ELSE [structure EXCEPT ![StructRoleIndex(structure, role)].skills =
                               AppendTopic(@, main_skill, topic_entry)]

\* AddSkillTopic with a topic only for a skill that has resources
AddSkillTopicIfResources(structure, role_obj, skill_obj, tree) ==
    IF skill_obj.skill_text = "" THEN structure
    ELSE IF ResourcesFrom(skill_obj.links, skill_obj.skill_text, SourceFileOf(role_obj, tree)) = <<>>
    THEN structure
    ELSE AddTopic(structure,
                  structure_normalize_role_name(role_obj.role_name),
                  extract_skill_from_name(skill_obj.skill_text,
                                          SelectSeq(split(lower(skill_obj.skill_text)), LongWord),
                                          role_obj.role_name),
                  [topic |-> title(skill_obj.skill_text),
                   resources |-> ResourcesFrom(skill_obj.links, skill_obj.skill_text,
                                               SourceFileOf(role_obj, tree))])

\* lines 266-345: one skill of a section
AddSkillTopic(structure, role_obj, skill_obj, tree) ==
    IF skill_obj.skill_text = "" THEN structure
    ELSE AddTopic(structure,
                  structure_normalize_role_name(role_obj.role_name),
                  extract_skill_from_name(skill_obj.skill_text,
                                          SelectSeq(split(lower(skill_obj.skill_text)), LongWord),
                                          role_obj.role_name),
                  [topic |-> title(skill_obj.skill_text),
                   resources |-> ResourcesFrom(skill_obj.links, skill_obj.skill_text,
                                               SourceFileOf(role_obj, tree))])

\* the skills of the sections of a role, in order
RECURSIVE SkillsOfSections(_)
SkillsOfSections(sections) ==
    IF sections = <<>> THEN <<>>
    ELSE Head(sections).skills \o SkillsOfSections(Tail(sections))

RECURSIVE AddSkillTopics(_, _, _, _)
AddSkillTopics(structure, role_obj, skills, tree) ==
    IF skills = <<>> THEN structure
    ELSE AddSkillTopics(AddSkillTopic(structure, role_obj, Head(skills), tree),
                        role_obj, Tail(skills), tree)

\* lines 257-345: one role of the input
AddRoleTopics(structure, role_obj, tree) ==
    IF role_obj.role_name = "" THEN structure
    ELSE AddSkillTopics(structure, role_obj, SkillsOfSections(role_obj.sections), tree)

\* lines 357-368: the keywords of a skill of the output
StructKeywords(skill_name) ==
    IF \E k \in 1..Len(TECH_SKILLS) : TECH_SKILLS[k].key = skill_name
    THEN LET terms == TECH_SKILLS[CHOOSE k \in 1..Len(TECH_SKILLS) :
                                      TECH_SKILLS[k].key = skill_name].terms
         IN  SortedStrings({terms[i] : i \in 1..Len(terms) \cap 1..5})
    ELSE SortedStrings({lower(skill_name)} \cup Range(split_on(lower(skill_name), "-")))

\* lines 354-374: the skills of a role of the output, sorted by key
SkillsList(skills) ==
    LET keys == SortedStrings({skills[i].skill : i \in 1..Len(skills)}) IN
    [n \in 1..Len(keys) |->
        [skill |-> title(replace(keys[n], "-", " ")),
         keywords |-> StructKeywords(keys[n]),
         topics |-> skills[StructSkillIndex(skills, keys[n])].topics]]

\* lines 350-384: output_data of the structure, roles sorted by name
RolesListOf(structure) ==
    LET names == SortedStrings({structure[i].role : i \in 1..Len(structure)}) IN
    [n \in 1..Len(names) |->
        [role |-> names[n],
         skills |-> SkillsList(structure[StructRoleIndex(structure, names[n])].skills)]]


(***************************************************************************)
(* Runs of create_role_skill_structure: each run reads data/roadmaps.json, *)
(* the output file of the Extractor, and writes                            *)
(* data/roadmaps_role_skill.json.  Between two runs the Extractor may have *)
(* written its output file (again); the markdown tree stays as it is.      *)
(***************************************************************************)
\* the most roles of the Extractor's output file, and the most runs
MaxRawRoles == 2
MaxRuns == 2

RawSkill(skill_text, links) == [skill_text |-> skill_text, parent_skill |-> None, links |-> links]

RawLink(text, href) == [text |-> text, href |-> href]

RawRole(role_name, source_files, skills) ==
    [role_name |-> role_name, source_files |-> source_files,
     sections |-> <<[section_name |-> "main", skills |-> skills]>>]

RawRolePool ==
    { RawRole("Backend Developer", <<"src/data/roadmaps/backend/backend.md">>,
              << RawSkill("SQL", <<RawLink("SQL Docs", "https://a.io/sql")>>),
                 RawSkill("Goroutines", <<>>) >>),
      RawRole("QA", <<"src\\data\\roadmaps\\qa\\qa.md">>,
              << RawSkill("", <<RawLink("x", "https://x.com/page")>>),
                 RawSkill("Learn Testing Basics",
                          << RawLink("", "https://youtube.com/watch?v=1"),
                             RawLink("none", ""),
                             RawLink("@book@Testing", "https://x.com/t") >>) >>),
      RawRole("", <<>>, <<RawSkill("Docker", <<>>)>>),
      RawRole("Backend", <<>>,
              <<RawSkill("SQL", <<RawLink("SQL Docs", "https://a.io/sql")>>)>>) }

\* data/roadmaps.json: absent when the Extractor never ran, or its roles
RawFiles ==
    {NoJson} \cup
    { [exists |-> TRUE, roles |-> q] :
        q \in UNION { {q \in [1..n -> RawRolePool] : \A i, j \in 1..n : i # j => q[i] # q[j]} :
                          n \in 0..MaxRawRoles } }

TreePool ==
    { <<>>,
      <<[path |-> "src/data/roadmaps/backend/backend.md", readable |-> TRUE,
         matches |-> <<[type |-> "video", title |-> "SQL Docs", url |-> "https://a.io/sql"]>>]>> }

StructurerInit ==
    /\ NotStructurerIdle
    /\ st_pc = "start"
    /\ st_tree \in TreePool
    /\ st_raw \in RawFiles
    /\ st_runs = 1
    /\ st_data = <<>>
    /\ st_next = 1
    /\ st_structure = <<>>
    /\ st_prev = NoJson
    /\ st_output = NoJson

\* lines 248-253: the input file is opened and loaded; without the file open()
\* raises FileNotFoundError, which nothing catches
LoadInput ==
    /\ st_pc = "start"
    /\ st_pc' = IF st_raw.exists THEN "process" ELSE "failed"
    /\ st_data' = st_raw.roles
    /\ st_next' = 1
    /\ st_structure' = <<>>
    /\ UNCHANGED <<st_tree, st_raw, st_runs, st_prev, st_output>>
    /\ UNCHANGED notStructurerVars

\* lines 257-345: one role of the loop
ProcessRole ==
    /\ st_pc = "process"
    /\ st_next <= Len(st_data)
    /\ st_structure' = AddRoleTopics(st_structure, st_data[st_next], st_tree)
    /\ st_next' = st_next + 1
    /\ UNCHANGED <<st_pc, st_tree, st_raw, st_runs, st_data, st_prev, st_output>>
    /\ UNCHANGED notStructurerVars

\* lines 347-424: the output is built, written and read back
WriteStructure ==
    /\ st_pc = "process"
    /\ st_next > Len(st_data)
    /\ st_output' = [exists |-> TRUE, roles |-> RolesListOf(st_structure)]
    /\ st_pc' = "done"
    /\ UNCHANGED <<st_tree, st_raw, st_runs, st_data, st_next, st_structure, st_prev>>
    /\ UNCHANGED notStructurerVars

\* the script is run again on the same tree; the Extractor's output file is
\* what it is by then
RunAgain ==
    /\ st_pc \in {"done", "failed"}
    /\ st_runs < MaxRuns
    /\ st_raw' \in RawFiles
    /\ st_runs' = st_runs + 1
    /\ st_prev' = st_output
    /\ st_pc' = "start"
    /\ UNCHANGED <<st_tree, st_data, st_next, st_structure, st_output>>
    /\ UNCHANGED notStructurerVars

StructurerNext == LoadInput \/ ProcessRole \/ WriteStructure \/ RunAgain

SpecStructurer == StructurerInit /\ [][StructurerNext]_vars

NotEmpty(text) == text # ""

\* the skills of the Extractor's output file that have a text, under a role
\* that has a name: the role and topic they give and the urls of their links
RawTopics ==
    UNION { { [role |-> structure_normalize_role_name(st_raw.roles[i].role_name),
               topic |-> title(SkillsOfSections(st_raw.roles[i].sections)[k].skill_text),
               links |-> SelectSeq(Hrefs(SkillsOfSections(st_raw.roles[i].sections)[k].links),
                                   NotEmpty),
               at |-> <<i, k>>] :
                 k \in {k \in 1..Len(SkillsOfSections(st_raw.roles[i].sections)) :
                           SkillsOfSections(st_raw.roles[i].sections)[k].skill_text # ""} } :
                i \in {i \in 1..Len(st_raw.roles) : st_raw.roles[i].role_name # ""} }

\* the topics of the output file, each with its place
OutputTopics ==
    UNION { UNION { { [role |-> st_output.roles[i].role,
                       topic |-> st_output.roles[i].skills[j].topics[k].topic,
                       links |-> [n \in 1..Len(st_output.roles[i].skills[j].topics[k].resources) |->
                                     st_output.roles[i].skills[j].topics[k].resources[n].link],
                       at |-> <<i, j, k>>] :
                         k \in 1..Len(st_output.roles[i].skills[j].topics) } :
                        j \in 1..Len(st_output.roles[i].skills) } :
                i \in 1..Len(st_output.roles) }

TopicOf(t) == [role |-> t.role, topic |-> t.topic, links |-> t.links]

ResourceUrlPool ==
    {"", "https://a.io/sql", "https://x.com/page", "https://youtube.com/watch?v=1"}

ResourceTitlePool == {"", "SQL Docs"}

TypedLink(type, link_title, url) == [type |-> type, title |-> link_title, url |-> url]

ResourceFilePool ==
    { NoFile,
      [path |-> "backend.md", readable |-> TRUE,
       matches |-> <<TypedLink("official", "SQL", "https://a.io/sql")>>],
      [path |-> "backend.md", readable |-> TRUE,
       matches |-> <<TypedLink("course", "SQL", "https://a.io/sql"),
                     TypedLink("Official", "SQL again", " https://a.io/sql ")>>],
      [path |-> "frontend.md", readable |-> TRUE,
       matches |-> <<TypedLink("video", "Other", "https://x.com/page")>>],
      [path |-> "backend.md", readable |-> FALSE,
       matches |-> <<TypedLink("video", "SQL", "https://a.io/sql")>>] }

ResourceInit ==
    /\ NotResourceIdle
    /\ rt_pc = "start"
    /\ rt_url \in ResourceUrlPool
    /\ rt_title \in ResourceTitlePool
    /\ rt_files \in ResourceFilePool \X ResourceFilePool
    /\ rt_types = <<>>

\* detect_resource_type(url, title, content_file_path), the first call
DetectFirst ==
    /\ rt_pc = "start"
    /\ rt_types' = <<detect_resource_type(rt_url, rt_title, rt_files[1])>>
    /\ rt_pc' = "first"
    /\ UNCHANGED <<rt_url, rt_title, rt_files>>
    /\ UNCHANGED notResourceVars

\* the second call
DetectSecond ==
    /\ rt_pc = "first"
    /\ rt_types' = Append(rt_types, detect_resource_type(rt_url, rt_title, rt_files[2]))
    /\ rt_pc' = "second"
    /\ UNCHANGED <<rt_url, rt_title, rt_files>>
    /\ UNCHANGED notResourceVars

ResourceNext == DetectFirst \/ DetectSecond

SpecResource == ResourceInit /\ [][ResourceNext]_vars

\* the positions of the annotations [@type@title](url) of a file for the url
AnnotationsFor(file, url) ==
    IF file.readable THEN {i \in 1..Len(file.matches) : strip(file.matches[i].url, " ") = url}
    ELSE {}

\* the type that the last annotation of the file for the url stands for, None
\* when the file has none for it
AnnotatedType(file, url) ==
    IF AnnotationsFor(file, url) = {} THEN None
    ELSE MappedType(file.matches[CHOOSE i \in AnnotationsFor(file, url) :
                                     \A j \in AnnotationsFor(file, url) : j <= i].type)

\* C12 as the specification states it: two calls with the same url and the
\* same link text return the same type, whatever the files of the two calls.
C12_SameUrlTextSameType ==
    rt_pc = "second" => rt_types[1] = rt_types[2]

\* C12: detect_resource_type is deterministic in its url, its link text and the
\* type that the markdown file at content_file_path annotates the url with:
\* two calls with the same url and text, whose files give the url the same
\* annotated type or both give it none, return the same type.
C12_SameAnnotationSameType ==
    (rt_pc = "second" /\ AnnotatedType(rt_files[1], rt_url) = AnnotatedType(rt_files[2], rt_url))
        => rt_types[1] = rt_types[2]

\* two calls with files that differ and annotate the url with the same type
C12_Witness ==
    /\ rt_pc = "second"
    /\ rt_files[1] # rt_files[2]
    /\ AnnotatedType(rt_files[1], rt_url) # None
    /\ AnnotatedType(rt_files[1], rt_url) = AnnotatedType(rt_files[2], rt_url)
    /\ rt_types[1] = rt_types[2]

(***************************************************************************)
(* The job processor, scripts/process_linkedin_jobs.py: the detection of   *)
(* skills in the text of a job posting.                                    *)
(***************************************************************************)

\* TECH_SKILLS of process_linkedin_jobs.py (lines 24-118), in the order of the dictionary
JOB_TECH_SKILLS ==
    <<
       [key |-> "python", name |-> "Python", roadmap |-> "python",
        topics |-> <<"programming language", "backend scripting", "automation">>],
       [key |-> "java", name |-> "Java", roadmap |-> "java",
        topics |-> <<"programming language", "object-oriented programming">>],
       [key |-> "javascript", name |-> "JavaScript", roadmap |-> "javascript",
        topics |-> <<"programming language", "web development", "frontend">>],
       [key |-> "typescript", name |-> "TypeScript", roadmap |-> "typescript",
        topics |-> <<"programming language", "web development", "type safety">>],
       [key |-> "c++", name |-> "C++", roadmap |-> "cpp",
        topics |-> <<"programming language", "systems programming">>],
       [key |-> "c#", name |-> "C#", roadmap |-> "csharp",
        topics |-> <<"programming language", "object-oriented programming", ".net">>],
       [key |-> "go", name |-> "Go", roadmap |-> "golang",
        topics |-> <<"programming language", "backend development", "concurrency">>],
       [key |-> "rust", name |-> "Rust", roadmap |-> "rust",
        topics |-> <<"programming language", "systems programming", "memory safety">>],
       [key |-> "kotlin", name |-> "Kotlin", roadmap |-> "android",
        topics |-> <<"programming language", "android development">>],
       [key |-> "swift", name |-> "Swift", roadmap |-> "ios",
        topics |-> <<"programming language", "ios development">>],
       [key |-> "php", name |-> "PHP", roadmap |-> "php",
        topics |-> <<"programming language", "web development", "backend">>],
       [key |-> "ruby", name |-> "Ruby", roadmap |-> "ruby",
        topics |-> <<"programming language", "web development">>],
       [key |-> "scala", name |-> "Scala", roadmap |-> "scala",
        topics |-> <<"programming language", "functional programming", "big data">>],
       [key |-> "r", name |-> "R", roadmap |-> "data-scientist",
        topics |-> <<"programming language", "data science", "statistics">>],
       [key |-> "react", name |-> "React", roadmap |-> "react",
        topics |-> <<"frontend framework", "ui development">>],
       [key |-> "vue", name |-> "Vue.js", roadmap |-> "vue",
        topics |-> <<"frontend framework", "ui development">>],
       [key |-> "angular", name |-> "Angular", roadmap |-> "angular",
        topics |-> <<"frontend framework", "ui development">>],
       [key |-> "next.js", name |-> "Next.js", roadmap |-> "react",
        topics |-> <<"frontend framework", "react framework", "ssr">>],
       [key |-> "nuxt", name |-> "Nuxt.js", roadmap |-> "vue",
        topics |-> <<"frontend framework", "vue framework", "ssr">>],
       [key |-> "svelte", name |-> "Svelte", roadmap |-> "frontend",
        topics |-> <<"frontend framework", "ui development">>],
       [key |-> "django", name |-> "Django", roadmap |-> "python",
        topics |-> <<"backend framework", "python", "web development">>],
       [key |-> "flask", name |-> "Flask", roadmap |-> "python",
        topics |-> <<"backend framework", "python", "web development">>],
       [key |-> "fastapi", name |-> "FastAPI", roadmap |-> "python",
        topics |-> <<"backend framework", "python", "api development">>],
       [key |-> "express", name |-> "Express.js", roadmap |-> "nodejs",
        topics |-> <<"backend framework", "node.js", "api development">>],
       [key |-> "spring", name |-> "Spring", roadmap |-> "java",
        topics |-> <<"backend framework", "java", "enterprise development">>],
       [key |-> "asp.net", name |-> "ASP.NET", roadmap |-> "aspnet-core",
        topics |-> <<"backend framework", "c#", "web development">>],
       [key |-> "laravel", name |-> "Laravel", roadmap |-> "php",
        topics |-> <<"backend framework", "php", "web development">>],
       [key |-> "rails", name |-> "Ruby on Rails", roadmap |-> "ruby",
        topics |-> <<"backend framework", "ruby", "web development">>],
       [key |-> "gin", name |-> "Gin", roadmap |-> "golang",
        topics |-> <<"backend framework", "go", "api development">>],
       [key |-> "mysql", name |-> "MySQL", roadmap |-> "backend",
        topics |-> <<"database", "sql", "relational database">>],
       [key |-> "postgresql", name |-> "PostgreSQL", roadmap |-> "backend",
        topics |-> <<"database", "sql", "relational database">>],
       [key |-> "mongodb", name |-> "MongoDB", roadmap |-> "backend",
        topics |-> <<"database", "nosql", "document database">>],
       [key |-> "redis", name |-> "Redis", roadmap |-> "backend",
        topics |-> <<"database", "cache", "in-memory database">>],
       [key |-> "elasticsearch", name |-> "Elasticsearch", roadmap |-> "backend",
        topics |-> <<"database", "search engine", "analytics">>],
       [key |-> "cassandra", name |-> "Cassandra", roadmap |-> "backend",
        topics |-> <<"database", "nosql", "distributed database">>],
       [key |-> "dynamodb", name |-> "DynamoDB", roadmap |-> "aws",
        topics |-> <<"database", "nosql", "aws">>],
       [key |-> "sqlite", name |-> "SQLite", roadmap |-> "backend",
        topics |-> <<"database", "sql", "embedded database">>],
       [key |-> "oracle", name |-> "Oracle", roadmap |-> "backend",
        topics |-> <<"database", "sql", "enterprise database">>],
       [key |-> "sql server", name |-> "SQL Server", roadmap |-> "backend",
        topics |-> <<"database", "sql", "microsoft">>],
       [key |-> "aws", name |-> "AWS", roadmap |-> "aws",
        topics |-> <<"cloud computing", "infrastructure", "deployment">>],
       [key |-> "azure", name |-> "Azure", roadmap |-> "azure",
        topics |-> <<"cloud computing", "microsoft", "infrastructure">>],
       [key |-> "gcp", name |-> "GCP", roadmap |-> "gcp",
        topics |-> <<"cloud computing", "google", "infrastructure">>],
       [key |-> "google cloud", name |-> "Google Cloud", roadmap |-> "gcp",
        topics |-> <<"cloud computing", "infrastructure">>],
       [key |-> "docker", name |-> "Docker", roadmap |-> "devops",
        topics |-> <<"containerization", "devops", "deployment">>],
       [key |-> "kubernetes", name |-> "Kubernetes", roadmap |-> "devops",
        topics |-> <<"container orchestration", "devops", "scalability">>],
       [key |-> "jenkins", name |-> "Jenkins", roadmap |-> "devops",
        topics |-> <<"ci/cd", "automation", "devops">>],
       [key |-> "gitlab", name |-> "GitLab", roadmap |-> "devops",
        topics |-> <<"ci/cd", "version control", "devops">>],
       [key |-> "github actions", name |-> "GitHub Actions", roadmap |-> "devops",
        topics |-> <<"ci/cd", "automation", "devops">>],
       [key |-> "terraform", name |-> "Terraform", roadmap |-> "devops",
        topics |-> <<"infrastructure as code", "devops", "cloud">>],
       [key |-> "ansible", name |-> "Ansible", roadmap |-> "devops",
        topics |-> <<"configuration management", "automation", "devops">>],
       [key |-> "git", name |-> "Git", roadmap |-> "devops",
        topics |-> <<"version control", "source control">>],
       [key |-> "tensorflow", name |-> "TensorFlow", roadmap |-> "ai-engineer",
        topics |-> <<"deep learning", "machine learning frameworks">>],
       [key |-> "pytorch", name |-> "PyTorch", roadmap |-> "ai-engineer",
        topics |-> <<"deep learning", "machine learning frameworks">>],
       [key |-> "scikit-learn", name |-> "scikit-learn", roadmap |-> "data-scientist",
        topics |-> <<"machine learning", "python", "data science">>],
       [key |-> "keras", name |-> "Keras", roadmap |-> "ai-engineer",
        topics |-> <<"deep learning", "neural networks">>],
       [key |-> "pandas", name |-> "Pandas", roadmap |-> "data-scientist",
        topics |-> <<"data analysis", "python", "data science">>],
       [key |-> "numpy", name |-> "NumPy", roadmap |-> "data-scientist",
        topics |-> <<"numerical computing", "python", "data science">>],
       [key |-> "opencv", name |-> "OpenCV", roadmap |-> "ai-engineer",
        topics |-> <<"computer vision", "image processing">>],
       [key |-> "nltk", name |-> "NLTK", roadmap |-> "ai-engineer",
        topics |-> <<"natural language processing", "nlp">>],
       [key |-> "spacy", name |-> "spaCy", roadmap |-> "ai-engineer",
        topics |-> <<"natural language processing", "nlp">>],
       [key |-> "react native", name |-> "React Native", roadmap |-> "react-native",
        topics |-> <<"mobile development", "cross-platform">>],
       [key |-> "flutter", name |-> "Flutter", roadmap |-> "flutter",
        topics |-> <<"mobile development", "cross-platform", "dart">>],
       [key |-> "ios", name |-> "iOS", roadmap |-> "ios",
        topics |-> <<"mobile development", "apple">>],
       [key |-> "android", name |-> "Android", roadmap |-> "android",
        topics |-> <<"mobile development", "google">>],
       [key |-> "xamarin", name |-> "Xamarin", roadmap |-> "mobile-developer",
        topics |-> <<"mobile development", "cross-platform", "c#">>],
       [key |-> "graphql", name |-> "GraphQL", roadmap |-> "backend",
        topics |-> <<"api", "query language">>],
       [key |-> "rest", name |-> "REST", roadmap |-> "backend",
        topics |-> <<"api", "web services">>],
       [key |-> "microservices", name |-> "Microservices", roadmap |-> "system-design",
        topics |-> <<"architecture", "distributed systems">>],
       [key |-> "agile", name |-> "Agile", roadmap |-> "software-architect",
        topics |-> <<"methodology", "project management">>],
       [key |-> "scrum", name |-> "Scrum", roadmap |-> "software-architect",
        topics |-> <<"methodology", "agile">>],
       [key |-> "oop", name |-> "OOP", roadmap |-> "computer-science",
        topics |-> <<"programming paradigm", "object-oriented programming">>],
       [key |-> "functional programming", name |-> "Functional Programming", roadmap |-> "computer-science",
        topics |-> <<"programming paradigm">>],
       [key |-> "linux", name |-> "Linux", roadmap |-> "devops",
        topics |-> <<"operating system", "system administration">>],
       [key |-> "bash", name |-> "Bash", roadmap |-> "devops",
        topics |-> <<"shell scripting", "automation">>],
       [key |-> "powershell", name |-> "PowerShell", roadmap |-> "devops",
        topics |-> <<"shell scripting", "automation", "windows">>]
    >>

\* the roadmap-bearing entries of SKILL_PATTERNS (lines 124-127), each alternation as
\* the list of its alternatives; the matches of the two patterns whose roadmap is
\* None (lines 122-123) are dropped by line 192
SKILL_PATTERNS ==
    << [terms |-> <<"deep learning", "machine learning", "ml", "ai", "artificial intelligence">>,
        roadmap |-> "ai-engineer"],
       [terms |-> <<"data science", "data analysis", "data engineering">>,
        roadmap |-> "data-scientist"],
       [terms |-> <<"cloud infrastructure", "cloud computing", "cloud services">>,
        roadmap |-> "aws"],
       [terms |-> <<"container", "containerization", "orchestration">>,
        roadmap |-> "devops"] >>

\* additional_patterns (lines 204-210); node\.?js is node.js or nodejs
additional_patterns ==
    << [terms |-> <<"node.js", "nodejs">>, name |-> "Node.js",
        topics |-> <<"backend", "javascript runtime">>, roadmap |-> "nodejs"],
       [terms |-> <<".net", "dotnet">>, name |-> ".NET",
        topics |-> <<"framework", "microsoft">>, roadmap |-> "aspnet-core"],
       [terms |-> <<"ci/cd", "continuous integration", "continuous deployment">>, name |-> "CI/CD",
        topics |-> <<"devops", "automation">>, roadmap |-> "devops"],
       [terms |-> <<"api", "apis", "application programming interface">>, name |-> "API Development",
        topics |-> <<"backend", "web services">>, roadmap |-> "backend"],
       [terms |-> <<"sql", "structured query language">>, name |-> "SQL",
        topics |-> <<"database", "query language">>, roadmap |-> "backend"] >>

\* html.unescape (line 136): the references of the model's inputs, which all end in
\* a semicolon
HtmlEntities ==
    << <<"&amp;", "&">>, <<"&lt;", "<">>, <<"&gt;", ">">>, <<"&quot;", "\"">>, <<"&nbsp;", " ">> >>

\* the concatenation of pieces[lo..hi], by halves
RECURSIVE ConcatRange(_, _, _)
ConcatRange(pieces, lo, hi) ==
    IF lo > hi THEN ""
    ELSE IF lo = hi THEN pieces[lo]
    ELSE ConcatRange(pieces, lo, (lo + hi) \div 2) \o ConcatRange(pieces, (lo + hi) \div 2 + 1, hi)

\* the text in which the character at each position is replaced by a piece
Pieces(pieces) == ConcatRange(pieces, 1, Len(pieces))

\* the entity that begins at position i of text, or 0
EntityAt(text, i) ==
    LET hits == {e \in 1..Len(HtmlEntities) :
                    /\ i + Len(HtmlEntities[e][1]) - 1 <= Len(text)
                    /\ SubSeq(text, i, i + Len(HtmlEntities[e][1]) - 1) = HtmlEntities[e][1]}
    IN  IF hits = {} THEN 0 ELSE CHOOSE e \in hits : TRUE

\* the text with the references that begin at the positions starts replaced
UnescapeAt(text, starts) ==
    Pieces(<<>> \o [i \in 1..Len(text) |->
        IF i \in starts THEN HtmlEntities[EntityAt(text, i)][2]
        ELSE IF \E k \in starts : k < i /\ i < k + Len(HtmlEntities[EntityAt(text, k)][1])
             THEN ""
             ELSE ch(text, i)])

unescape(text) ==
    UnescapeAt(text, {k \in 1..Len(text) : ch(text, k) = "&" /\ EntityAt(text, k) # 0})

\* the spans <<k, c>> of a "<" and the first ">" after it that is not the next character
TagSpans(text) ==
    LET opens  == {k \in 1..Len(text) : ch(text, k) = "<"}
        closes == {c \in 1..Len(text) : ch(text, c) = ">"}
    IN  {p \in opens \X closes :
            p[2] >= p[1] + 2 /\ \A c \in closes : c <= p[1] \/ c >= p[2]}

\* the text without the characters that lie in a span
WithoutSpans(text, spans) ==
    Pieces(<<>> \o [i \in 1..Len(text) |->
        IF \E p \in spans : p[1] <= i /\ i <= p[2] THEN "" ELSE ch(text, i)])

\* re.sub(r'<[^>]+>', '', text) (line 138)
RemoveTags(text) == WithoutSpans(text, TagSpans(text))

\* re.sub(r'\s+', ' ', text) (line 140)
CollapseSpace(text) ==
    Pieces(<<>> \o [i \in 1..Len(text) |->
        IF IsSpace(ch(text, i)) /\ i > 1 /\ IsSpace(ch(text, i - 1)) THEN "" ELSE ch(text, i)])

\* re.sub(r'[^\w\s.,;:!?()\-]', '', text) (line 142)
KeepPlainChars(text) ==
    Pieces(<<>> \o [i \in 1..Len(text) |->
        IF IsWordChar(ch(text, i)) \/ IsSpace(ch(text, i)) \/ CharIn(ch(text, i), ".,;:!?()-")
        THEN ch(text, i) ELSE ""])

\* clean_text (lines 131-143); None is the NULL of a database column
clean_text(text) ==
    IF text = None \/ text = "" THEN ""
    ELSE strip(KeepPlainChars(CollapseSpace(RemoveTags(unescape(text)))), " ")

\* str.lower() of a long text
lower_text(text) == Pieces(<<>> \o [i \in 1..Len(text) |-> lower_char(ch(text, i))])

\* \b at the position between the characters i - 1 and i of text
WordBoundaryAt(text, i) ==
    LET before == i > 1 /\ i - 1 <= Len(text) /\ IsWordChar(ch(text, i - 1))
        after  == i >= 1 /\ i <= Len(text) /\ IsWordChar(ch(text, i))
    IN  before # after

\* the parts of text that lie between two positions at which \b matches
BoundedParts(text) ==
    LET at == {i \in 1..(Len(text) + 1) : WordBoundaryAt(text, i)}
    IN  {SubSeq(text, i, j - 1) : <<i, j>> \in {p \in at \X at : p[1] < p[2]}}

\* re.search(rf'\b{re.escape(term)}\b', text), given the bounded parts of text
SearchWord(parts, term) == term \in parts

\* re.search of an alternation \b(?:a|b|...)\b
SearchAnyWord(parts, terms) == \E t \in 1..Len(terms) : SearchWord(parts, terms[t])

\* the lowered names of TECH_SKILLS
lowered_names == <<>> \o [i \in 1..Len(JOB_TECH_SKILLS) |-> lower(JOB_TECH_SKILLS[i].name)]

\* the entries of a set in the order of sorted(TECH_SKILLS.items(), key=len of the key,
\* reverse=True), a stable sort (line 163)
RECURSIVE ByKeyLength(_)
ByKeyLength(entries) ==
    IF entries = {} THEN <<>>
    ELSE LET first == CHOOSE i \in entries : \A j \in entries :
                          \/ Len(JOB_TECH_SKILLS[j].key) < Len(JOB_TECH_SKILLS[i].key)
                          \/ Len(JOB_TECH_SKILLS[j].key) = Len(JOB_TECH_SKILLS[i].key) /\ i <= j
         IN  <<first>> \o ByKeyLength(entries \ {first})

\* the members of a set of numbers in increasing order
RECURSIVE Ascending(_)
Ascending(set) ==
    IF set = {} THEN <<>>
    ELSE LET least == CHOOSE x \in set : \A y \in set : x <= y
         IN  <<least>> \o Ascending(set \ {least})

\* found_skills[skill_id] = {...} under "if skill_id not in found_skills"
AddFound(found_skills, skill) ==
    IF \E i \in 1..Len(found_skills) : found_skills[i].skill_id = skill.skill_id
    THEN found_skills
    ELSE Append(found_skills, skill)

RECURSIVE AddAllFound(_, _)
AddAllFound(found_skills, skills) ==
    IF skills = <<>> THEN found_skills
    ELSE AddAllFound(AddFound(found_skills, Head(skills)), Tail(skills))

\* the found skill of entry i of TECH_SKILLS
DirectSkill(i) ==
    [skill_id |-> slugify(JOB_TECH_SKILLS[i].key), name |-> JOB_TECH_SKILLS[i].name,
     topics |-> JOB_TECH_SKILLS[i].topics, resources |-> <<>>]

\* the found skills of the entries order, one after the other
DirectSkills(order) == [k \in 1..Len(order) |-> DirectSkill(order[k])]

\* the loop of lines 165-186: the entries whose key or lowered name is found, in the
\* order of sorted_skills
DirectMatches(parts) ==
    DirectSkills(ByKeyLength({i \in 1..Len(JOB_TECH_SKILLS) :
        SearchWord(parts, JOB_TECH_SKILLS[i].key) \/ SearchWord(parts, lowered_names[i])}))

\* the loop of lines 189-201; re.IGNORECASE on description is the search in its lowered form
PatternMatches(parts) ==
    LET order == Ascending({p \in 1..Len(SKILL_PATTERNS) :
                                SearchAnyWord(parts, SKILL_PATTERNS[p].terms)})
    IN  [k \in 1..Len(order) |->
            [skill_id |-> slugify(SKILL_PATTERNS[order[k]].roadmap),
             name |-> title(replace(SKILL_PATTERNS[order[k]].roadmap, "-", " ")),
             topics |-> <<"technology", "development">>, resources |-> <<>>]]

\* the loop of lines 212-221
AdditionalMatches(parts) ==
    LET order == Ascending({p \in 1..Len(additional_patterns) :
                                SearchAnyWord(parts, additional_patterns[p].terms)})
    IN  [k \in 1..Len(order) |->
            [skill_id |-> slugify(lower(additional_patterns[order[k]].name)),
             name |-> additional_patterns[order[k]].name,
             topics |-> additional_patterns[order[k]].topics, resources |-> <<>>]]

\* lines 225-245: the roadmap of the entry whose key is the lowered name, else of the
\* additional pattern of that name, else the generic resource
ResourcesOfSkill(skill_name) ==
    LET skill_lower == lower(skill_name)
        keyed == {i \in 1..Len(JOB_TECH_SKILLS) : JOB_TECH_SKILLS[i].key = skill_lower}
        extra == {p \in 1..Len(additional_patterns) : lower(additional_patterns[p].name) = skill_lower}
        roadmap_path ==
            IF keyed # {} THEN JOB_TECH_SKILLS[CHOOSE i \in keyed : TRUE].roadmap
            ELSE IF extra # {}
                 THEN additional_patterns[CHOOSE p \in extra : \A r \in extra : p <= r].roadmap
                 ELSE None
    IN  IF roadmap_path # None
        THEN <<"https://roadmap.sh/" \o roadmap_path, "https://roadmap.sh/" \o roadmap_path \o "/guide">>
        ELSE <<"https://roadmap.sh">>

WithResources(found_skills) ==
    [i \in 1..Len(found_skills) |->
        [found_skills[i] EXCEPT !.resources = ResourcesOfSkill(found_skills[i].name)]]

\* lines 160-247, given the bounded parts of description_lower
FoundSkills(parts) ==
    WithResources(
        AddAllFound(AddAllFound(AddAllFound(<<>>, DirectMatches(parts)), PatternMatches(parts)),
                    AdditionalMatches(parts)))

\* extract_skills_from_description (lines 154-247)
extract_skills_from_description(description) ==
    IF description = "" THEN <<>> ELSE FoundSkills(BoundedParts(lower_text(description)))

(***************************************************************************)
(* SpecJobs: one run of main of process_linkedin_jobs.py, which takes its  *)
(* jobs from the database, else from the CSV file, else from the built-in  *)
(* sample postings, repeats jobs up to ten and writes the output file.     *)
(***************************************************************************)

MaxJobRows == 2

\* job_description of the job dictionaries (lines 290, 344, 384)
ShortDescription(description) ==
    IF Len(description) > 500 THEN SubSeq(description, 1, 500) \o "..." ELSE description

\* f"{description} {skills_desc}".strip() of the cleaned columns
full_description(row) ==
    strip(clean_text(row.description) \o " " \o clean_text(row.skills_desc), " ")

\* the row is skipped by "if not job_title or not full_description: continue"
BlankRow(row) == clean_text(row.title) = "" \/ full_description(row) = ""

\* the job dictionary of one row
JobOfRow(row, company_name, skills) ==
    [job_title |-> clean_text(row.title), company_name |-> company_name,
     job_description |-> ShortDescription(clean_text(row.description)), skills |-> skills]

\* a row gives no job if it is blank, or if skills are required and it has fewer than three
JobsOfRow(row, company_name, skills, required) ==
    IF BlankRow(row) \/ (required /\ Len(skills) < 3)
    THEN <<>>
    ELSE <<JobOfRow(row, company_name, skills)>>

\* company_name of a row of the database (line 326)
CompanyOf(row) == IF row.company_name = None THEN "Unknown Company" ELSE row.company_name

\* the loop of lines 324-346 without the test of lines 338-339
RECURSIVE DatabaseJobsUnfiltered(_)
DatabaseJobsUnfiltered(rows) ==
    IF rows = <<>> THEN <<>>
    ELSE JobsOfRow(Head(rows), CompanyOf(Head(rows)),
                   extract_skills_from_description(full_description(Head(rows))), FALSE)
             \o DatabaseJobsUnfiltered(Tail(rows))

\* the loop of lines 324-346
RECURSIVE DatabaseJobs(_)
DatabaseJobs(rows) ==
    IF rows = <<>> THEN <<>>
    ELSE JobsOfRow(Head(rows), CompanyOf(Head(rows)),
                   extract_skills_from_description(full_description(Head(rows))), TRUE)
             \o DatabaseJobs(Tail(rows))

\* process_jobs_from_database (lines 295-349): LIMIT cuts the rows of the query
process_jobs_from_database(db, limit) ==
    IF ~db.exists THEN <<>>
    ELSE DatabaseJobs(IF limit # 0 /\ limit < Len(db.rows) THEN SubSeq(db.rows, 1, limit) ELSE db.rows)

\* the loop of lines 362-387; count is the number of jobs appended
RECURSIVE CsvJobs(_, _, _)
CsvJobs(rows, limit, count) ==
    IF rows = <<>> \/ (limit # 0 /\ count >= limit) THEN <<>>
    ELSE LET found == JobsOfRow(Head(rows), clean_text(Head(rows).company_name),
                                extract_skills_from_description(full_description(Head(rows))), TRUE)
         IN  found \o CsvJobs(Tail(rows), limit, count + Len(found))

\* process_jobs_from_csv (lines 352-389)
process_jobs_from_csv(csv, limit) ==
    IF ~csv.exists THEN <<>> ELSE CsvJobs(csv.rows, limit, 0)

\* sample_jobs (lines 451-477)
sample_jobs ==
    << [title |-> "Machine Learning Engineer", company |-> "OpenAI",
        description |-> "We are looking for a Machine Learning Engineer to build and deploy ML systems at scale. Must have experience with Python, PyTorch, TensorFlow, and cloud infrastructure like AWS. Knowledge of Docker, Kubernetes, and CI/CD pipelines is required. Experience with REST APIs, microservices architecture, and Agile methodologies."],
       [title |-> "Full Stack Developer", company |-> "Tech Corp",
        description |-> "Seeking a Full Stack Developer with expertise in React, Node.js, TypeScript, and PostgreSQL. Must know Docker, AWS, and have experience with GraphQL APIs. Familiarity with Agile/Scrum methodologies required."],
       [title |-> "Data Scientist", company |-> "Data Analytics Inc",
        description |-> "Looking for a Data Scientist proficient in Python, R, Pandas, NumPy, and scikit-learn. Experience with SQL databases (PostgreSQL, MySQL), cloud platforms (AWS, GCP), and machine learning frameworks (TensorFlow, PyTorch) is essential."],
       [title |-> "DevOps Engineer", company |-> "Cloud Services Ltd",
        description |-> "DevOps Engineer needed with strong knowledge of Docker, Kubernetes, Jenkins, Terraform, and AWS. Experience with Linux, Bash scripting, CI/CD pipelines, and infrastructure as code required."],
       [title |-> "Frontend Developer", company |-> "Web Solutions",
        description |-> "Frontend Developer position requiring React, TypeScript, JavaScript, HTML, CSS. Experience with Next.js, REST APIs, and modern frontend development practices. Knowledge of Git and Agile methodologies."] >>

\* the skills line 480 detects in each sample posting
sample_skills ==
    <<>> \o [i \in 1..Len(sample_jobs) |-> extract_skills_from_description(sample_jobs[i].description)]

\* the job dictionaries of the sample postings kept
SampleJobsOf(kept) ==
    [k \in 1..Len(kept) |->
        [job_title |-> sample_jobs[kept[k]].title, company_name |-> sample_jobs[kept[k]].company,
         job_description |-> sample_jobs[kept[k]].description, skills |-> sample_skills[kept[k]]]]

\* the loop of lines 479-487
SampleJobs == SampleJobsOf(Ascending({i \in 1..Len(sample_jobs) : Len(sample_skills[i]) >= 3}))

\* lines 490-492: len(jobs) % len(jobs) is 0, so the first job is the one repeated
RECURSIVE PadToTen(_)
PadToTen(jobs) ==
    IF jobs = <<>> \/ Len(jobs) >= 10 THEN jobs ELSE PadToTen(Append(jobs, jobs[1]))

\* the postings the rows of a run are drawn from
Posting(job_title, company_name, description, skills_desc) ==
    [title |-> job_title, company_name |-> company_name, description |-> description,
     skills_desc |-> skills_desc]

PostingPool ==
    { Posting("Backend <b>Engineer</b>", "Acme", "Build APIs with Python, Docker and AWS.", None),
      Posting("Designer", None, "Figma &amp; C++ for   print; some Git.", ""),
      Posting("Platform Engineer", "Initech", "Kubernetes and React", "Go, CI/CD"),
      Posting(None, "Acme", "Java, Spring Boot, MySQL and Redis", "") }

JobSources ==
    {NoRows} \cup
    {[exists |-> TRUE, rows |-> rows] :
        rows \in UNION {[1..n -> PostingPool] : n \in 0..MaxJobRows}}

JobsInit ==
    /\ NotJobsIdle
    /\ jb_pc = "start"
    /\ jb_db \in JobSources
    /\ jb_csv \in JobSources
    /\ jb_limit \in 0..1
    /\ jb_jobs = <<>>
    /\ jb_output = NoJobsFile

\* lines 427-432
TryDatabase ==
    /\ jb_pc = "start"
    /\ jb_jobs' = process_jobs_from_database(jb_db, jb_limit)
    /\ jb_pc' = "csv"
    /\ UNCHANGED <<jb_db, jb_csv, jb_limit, jb_output>>
    /\ UNCHANGED notJobsVars

\* lines 434-440
TryCsv ==
    /\ jb_pc = "csv"
    /\ jb_jobs' = IF jb_jobs = <<>> THEN process_jobs_from_csv(jb_csv, jb_limit) ELSE jb_jobs
    /\ jb_pc' = "sample"
    /\ UNCHANGED <<jb_db, jb_csv, jb_limit, jb_output>>
    /\ UNCHANGED notJobsVars

\* lines 442-487
TrySamples ==
    /\ jb_pc = "sample"
    /\ jb_jobs' = IF jb_jobs = <<>> THEN SampleJobs ELSE jb_jobs
    /\ jb_pc' = "pad"
    /\ UNCHANGED <<jb_db, jb_csv, jb_limit, jb_output>>
    /\ UNCHANGED notJobsVars

\* lines 489-498
WriteJobs ==
    /\ jb_pc = "pad"
    /\ jb_jobs' = PadToTen(jb_jobs)
    /\ jb_output' = [exists |-> TRUE, jobs |-> PadToTen(jb_jobs)]
    /\ jb_pc' = "written"
    /\ UNCHANGED <<jb_db, jb_csv, jb_limit>>
    /\ UNCHANGED notJobsVars

JobsNext == TryDatabase \/ TryCsv \/ TrySamples \/ WriteJobs

SpecJobs == JobsInit /\ [][JobsNext]_vars

\* the skills detected in a posting
DetectedSkills(row) == extract_skills_from_description(full_description(row))

\* the postings of the database and of the CSV file of the run
RunPostings ==
    {jb_db.rows[i] : i \in 1..Len(jb_db.rows)} \cup {jb_csv.rows[i] : i \in 1..Len(jb_csv.rows)}

\* C13: every job of the output file has at least three detected skills, and a posting
\* of the database or of the CSV file in which fewer than three skills are detected,
\* like a sample posting of that kind, has no job in the output file.
C13_AtLeastThreeSkills ==
    jb_pc = "written" =>
        /\ \A j \in 1..Len(jb_output.jobs) : Len(jb_output.jobs[j].skills) >= 3
        /\ \A row \in RunPostings :
               Len(DetectedSkills(row)) < 3 =>
                   \A j \in 1..Len(jb_output.jobs) : jb_output.jobs[j].job_title # clean_text(row.title)
        /\ \A s \in 1..Len(sample_jobs) :
               Len(sample_skills[s]) < 3 =>
                   \A j \in 1..Len(jb_output.jobs) : jb_output.jobs[j].job_title # sample_jobs[s].title

\* a run whose output holds jobs of the database although one posting of the database
\* has a title and fewer than three detected skills
C13_Witness ==
    /\ jb_pc = "written"
    /\ jb_db.exists
    /\ \E i \in 1..Len(jb_db.rows) :
           ~BlankRow(jb_db.rows[i]) /\ Len(DetectedSkills(jb_db.rows[i])) < 3
    /\ Len(jb_output.jobs) = 10
    /\ \E i \in 1..Len(jb_db.rows) : jb_output.jobs[1].job_title = clean_text(jb_db.rows[i].title)

(***************************************************************************)
(* The web application, resume-parser/app.py: the functions the handler of *)
(* /upload calls.  A response of the LLM service is Raised when the call   *)
(* raises, else Ok of the content of the message.                          *)
(***************************************************************************)

\* int(selected_job_id) for an id of one character
int(text) ==
    IF Len(text) = 1 /\ CharIn(text, DigitChars) THEN Ok(IndexIn(text, DigitChars) - 1) ELSE Raised

\* unique_jobs of get_job_by_index (lines 838-846): the first job of every title
UniqueJobs(jobs) ==
    LET kept == Ascending({i \in 1..Len(jobs) :
                    /\ jobs[i].job_title # ""
                    /\ \A j \in 1..(i - 1) : jobs[j].job_title # jobs[i].job_title})
    IN  [k \in 1..Len(kept) |-> jobs[kept[k]]]

\* get_job_by_index (lines 828-854)
get_job_by_index(jobs_file, job_index) ==
    IF ~jobs_file.exists THEN NoResult
    ELSE IF 0 <= job_index /\ job_index < Len(UniqueJobs(jobs_file.jobs))
         THEN Ok(UniqueJobs(jobs_file.jobs)[job_index + 1])
         ELSE NoResult

\* one more call of client.chat.completions.create
IssueCallRetrying(calls, label, response) ==
    IF response.status = "raise" THEN calls \o <<label, label>> ELSE Append(calls, label)

IssueCall(calls, label, response) == Append(calls, label)

\* extract_skills_with_openai (lines 301-464), on the skills its parsing finds in the content
extract_skills_with_openai(response) ==
    IF response.status = "raise" THEN <<>> ELSE response.value

\* lines 671-678: the union of the skills of the service and of the patterns
CombinedSkills(extracted_skills, pattern_skills) ==
    SortedStrings(Range(extracted_skills) \cup pattern_skills)

\* match_skills_to_roadmap_ai (lines 467-581): the first match of every roadmap skill
match_skills_to_roadmap_ai(response) ==
    IF response.status = "raise" \/ ~response.value.json THEN <<>>
    ELSE LET found == response.value.matched_skills
             kept  == Ascending({i \in 1..Len(found) :
                          /\ found[i].roadmap_skill # ""
                          /\ \A j \in 1..(i - 1) : found[j].roadmap_skill # found[i].roadmap_skill})
         IN  [k \in 1..Len(kept) |->
                 [skill |-> found[kept[k]].roadmap_skill, keywords |-> found[kept[k]].keywords,
                  matched_from |-> found[kept[k]].extracted_skill]]

\* expand_job_description (lines 857-908)
expand_job_description(job_description, response) ==
    IF response.status = "raise" THEN job_description ELSE strip(response.value, " ")

\* max(1.0, min(5.0, float(proficiency)))
Clamped(proficiency) == IF proficiency < 1 THEN 1 ELSE IF proficiency > 5 THEN 5 ELSE proficiency

\* calculate_skill_proficiency (lines 911-1011)
calculate_skill_proficiency(extracted_skills, response) ==
    IF extracted_skills = <<>> THEN <<>>
    ELSE IF response.status = "raise" \/ ~response.value.json
         THEN [i \in 1..Len(extracted_skills) |-> [name |-> extracted_skills[i], proficiency |-> 3]]
         ELSE [i \in 1..Len(response.value.scores) |->
                  [name |-> response.value.scores[i].name,
                   proficiency |-> Clamped(response.value.scores[i].proficiency)]]

\* proficiency_map[name], the last entry of a lowered name, or other
ProficiencyOf(skills_with_proficiency, name, other) ==
    LET hits == {i \in 1..Len(skills_with_proficiency) : lower(skills_with_proficiency[i].name) = lower(name)}
    IN  IF hits = {} THEN other
        ELSE skills_with_proficiency[CHOOSE i \in hits : \A j \in hits : j <= i].proficiency

\* lines 748-762: matched_skills with the proficiency of each
WithProficiency(matched_skills, skills_with_proficiency) ==
    [i \in 1..Len(matched_skills) |->
        [skill |-> matched_skills[i].skill, keywords |-> matched_skills[i].keywords,
         matched_from |-> matched_skills[i].matched_from,
         proficiency |-> ProficiencyOf(skills_with_proficiency, matched_skills[i].skill, 3)]]

\* the status of a percentage (lines 1196-1201)
MatchStatus(match_pct) ==
    IF match_pct >= 75 THEN "strong" ELSE IF match_pct >= 50 THEN "moderate" ELSE "weak"

\* list.sort(key=match_percentage, reverse=True), a stable sort
RECURSIVE ByPercentage(_)
ByPercentage(entries) ==
    IF entries = <<>> THEN <<>>
    ELSE LET best == CHOOSE i \in 1..Len(entries) : \A j \in 1..Len(entries) :
                         \/ entries[j].match_percentage < entries[i].match_percentage
                         \/ entries[j].match_percentage = entries[i].match_percentage /\ i <= j
         IN  <<entries[best]>>
                 \o ByPercentage(SubSeq(entries, 1, best - 1) \o SubSeq(entries, best + 1, Len(entries)))

CountStatus(entries, status) == Cardinality({i \in 1..Len(entries) : entries[i].status = status})

\* the structure of lines 1167-1178 and 1246-1257, returned in place of a result
ErrorStructure(job, message, expanded_description) ==
    [job_title |-> job.job_title, company_name |-> job.company_name,
     total_job_skills |-> Len(job.skills), overall_match_percentage |-> 0, all_skills |-> <<>>,
     strong_count |-> 0, moderate_count |-> 0, weak_count |-> 0, error |-> message,
     expanded_description |-> expanded_description]

\* lines 1187-1208: all_skills_with_matches
FormattedMatches(job_skill_matches) ==
    ByPercentage([i \in 1..Len(job_skill_matches) |->
        [skill |-> job_skill_matches[i].skill_name,
         match_percentage |-> job_skill_matches[i].match_percentage,
         status |-> MatchStatus(job_skill_matches[i].match_percentage),
         matched_resume_skills |-> job_skill_matches[i].matched_resume_skills,
         reasoning |-> job_skill_matches[i].reasoning]])

\* lines 1218-1234: the result of the service
AiResult(job, match_data, all_skills, expanded_description) ==
    [job_title |-> job.job_title, company_name |-> job.company_name,
     total_job_skills |-> Len(job.skills),
     overall_match_percentage |-> match_data.overall_match_percentage,
     all_skills |-> all_skills,
     strong_count |-> CountStatus(all_skills, "strong"),
     moderate_count |-> CountStatus(all_skills, "moderate"),
     weak_count |-> CountStatus(all_skills, "weak"),
     detailed_matches |-> match_data.job_skills, expanded_description |-> expanded_description,
     raw_ai_response |-> match_data.text, ai_generated |-> TRUE]

\* the set of the lowered skill names of the resume (lines 1283-1298)
ResumeSkillNames(matched_skills, extracted_skills_raw) ==
    ({lower(matched_skills[i].skill) : i \in 1..Len(matched_skills)} \ {""})
        \cup {lower(extracted_skills_raw[i]) : i \in 1..Len(extracted_skills_raw)}

ResumeKeywords(matched_skills) ==
    UNION {{lower(matched_skills[i].keywords[k]) : k \in 1..Len(matched_skills[i].keywords)} :
              i \in 1..Len(matched_skills)}

\* the percentage the deprecated matcher gives a job skill (lines 1329-1398), with the
\* roadmap keywords of load_roadmap_skills empty: 95 exact, 60 partial, 50 topic, 15 none
KeywordPercentage(job_skill, job, resume_skill_names, resume_keywords) ==
    IF job_skill \in resume_skill_names THEN 95
    ELSE IF \/ \E resume_skill \in resume_skill_names :
                  /\ contains(resume_skill, job_skill) \/ contains(job_skill, resume_skill)
                  /\ Len(job_skill) >= 3 /\ Len(resume_skill) >= 3
            \/ resume_skill_names # {} /\ job_skill \in resume_keywords
         THEN 60
    ELSE IF \E i \in 1..Len(job.skills) : \E t \in 1..Len(job.skills[i].topics) :
                lower(job.skills[i].topics[t]) \in resume_keywords \cup resume_skill_names
         THEN 50
    ELSE 15

\* all_skills_with_matches of the deprecated matcher, given the lowered job skill names
KeywordMatches(names, job, resume_skill_names, resume_keywords) ==
    ByPercentage([i \in 1..Len(names) |->
        [skill |-> title(names[i]),
         match_percentage |-> KeywordPercentage(names[i], job, resume_skill_names, resume_keywords),
         status |-> MatchStatus(KeywordPercentage(names[i], job, resume_skill_names, resume_keywords)),
         matched_resume_skills |-> <<>>,
         reasoning |-> IF KeywordPercentage(names[i], job, resume_skill_names, resume_keywords) = 15
                       THEN "Skill not found in resume" ELSE "Matched"]])

\* the result of the deprecated matcher, given its all_skills_with_matches
KeywordResult(job, all_skills) ==
    [job_title |-> job.job_title, company_name |-> job.company_name,
     total_job_skills |-> Len(all_skills),
     overall_match_percentage |->
         (100 * Cardinality({i \in 1..Len(all_skills) : all_skills[i].match_percentage > 15}))
             \div Len(all_skills),
     all_skills |-> all_skills,
     strong_count |-> CountStatus(all_skills, "strong"),
     moderate_count |-> CountStatus(all_skills, "moderate"),
     weak_count |-> CountStatus(all_skills, "weak")]

\* compare_resume_to_job (lines 1264-1435) for a job that has skills
compare_resume_to_job(matched_skills, extracted_skills_raw, job) ==
    Ok(KeywordResult(job,
        KeywordMatches(
            SortedStrings({lower(job.skills[i].name) : i \in 1..Len(job.skills)} \ {""}),
            job, ResumeSkillNames(matched_skills, extracted_skills_raw),
            ResumeKeywords(matched_skills))))

\* the service failed, or its content is not the JSON lines 1156-1208 can use
Unusable(response) ==
    \/ response.status = "raise"
    \/ ~response.value.json
    \/ \E i \in 1..Len(response.value.job_skills) : ~response.value.job_skills[i].number

\* compare_resume_to_job_ai that hands the work to the deprecated matcher when the
\* service fails
compare_resume_to_job_ai_or_keywords(matched_skills, extracted_skills_raw, job, expanded_description, response) ==
    IF Unusable(response) \/ response.value.job_skills = <<>>
    THEN compare_resume_to_job(matched_skills, extracted_skills_raw, job)
    ELSE Ok(AiResult(job, response.value, FormattedMatches(response.value.job_skills),
                     expanded_description))

\* compare_resume_to_job_ai from the call of the service on (lines 1141-1261), for the
\* job of the request, which has skills
compare_resume_to_job_ai(matched_skills, extracted_skills_raw, job, expanded_description, response) ==
    IF Unusable(response)
    THEN Ok(ErrorStructure(job, "AI comparison failed", ""))
    ELSE IF response.value.job_skills = <<>>
         THEN Ok(ErrorStructure(job, "AI returned empty results", expanded_description))
         ELSE Ok(AiResult(job, response.value, FormattedMatches(response.value.job_skills),
                          expanded_description))

(***************************************************************************)
(* SpecUpload: the server handles one /upload request after the other.     *)
(* The handler is cut at its calls of the LLM service, whose responses are *)
(* chosen freely; the log of resumes is left to SpecResumeLog.             *)
(***************************************************************************)

JobSkill(name, topic) == [name |-> name, topics |-> <<topic>>]

\* a job of the file of the job processor; expanded_description is "" where the job has none
UploadJob(job_title, company_name, skills, expanded_description) ==
    [job_title |-> job_title, company_name |-> company_name, job_description |-> "Build things",
     skills |-> skills, expanded_description |-> expanded_description]

UploadJobsFiles ==
    { NoJobsFile,
      [exists |-> TRUE,
       jobs |-> << UploadJob("Backend Engineer", "Acme",
                             <<JobSkill("Python", "programming language"), JobSkill("Docker", "devops")>>, ""),
                   UploadJob("Backend Engineer", "Acme", <<JobSkill("Go", "programming language")>>, ""),
                   UploadJob("Designer", "Initech", <<>>, ""),
                   UploadJob("Data Engineer", "Initech", <<JobSkill("SQL", "database")>>,
                             "Five years of SQL") >>] }

\* the requests: without file, without file name, of a type not allowed, with too little
\* text, and the resumes, with the skills the patterns find and the selected job
UploadRequest(kind, pattern_skills, selected_job_id) ==
    [kind |-> kind, pattern_skills |-> pattern_skills, selected_job_id |-> selected_job_id]

UploadRequests ==
    {UploadRequest(kind, {}, None) : kind \in {"no file", "no name", "bad type", "short text"}}
        \cup {UploadRequest("resume", pattern_skills, selected_job_id) :
                  pattern_skills \in {{}, {"Docker"}}, selected_job_id \in {None, "0", "1", "2", "7", "x"}}

ExtractResponses == {Raised, Ok(<<>>), Ok(<<"Python", "Git">>)}

MatchedEntry(roadmap_skill, extracted_skill) ==
    [roadmap_skill |-> roadmap_skill, keywords |-> <<lower(roadmap_skill)>>,
     extracted_skill |-> extracted_skill]

MatchResponses ==
    { Raised, Ok([json |-> FALSE]),
      Ok([json |-> TRUE,
          matched_skills |-> <<MatchedEntry("Python", "Python"), MatchedEntry("", "Git"),
                               MatchedEntry("Python", "python3")>>]) }

ExpandResponses == {Raised, Ok(" Senior role ")}

ProficiencyResponses ==
    { Raised,
      Ok([json |-> TRUE, scores |-> <<[name |-> "python", proficiency |-> 7],
                                      [name |-> "Git", proficiency |-> 2]>>]) }

SkillMatch(skill_name, match_percentage, number) ==
    [skill_name |-> skill_name, match_percentage |-> match_percentage, number |-> number,
     matched_resume_skills |-> <<>>, reasoning |-> "because"]

CompareResponses ==
    { Raised, Ok([json |-> FALSE]),
      Ok([json |-> TRUE, text |-> "empty", overall_match_percentage |-> 0, job_skills |-> <<>>]),
      Ok([json |-> TRUE, text |-> "percentage is no number", overall_match_percentage |-> 40,
          job_skills |-> <<SkillMatch("Python", 0, FALSE)>>]),
      Ok([json |-> TRUE, text |-> "matches", overall_match_percentage |-> 59,
          job_skills |-> <<SkillMatch("Docker", 34, TRUE), SkillMatch("Python", 84, TRUE)>>]) }

UploadInit ==
    /\ NotUploadIdle
    /\ up_pc = "waiting"
    /\ up_jobs_file \in UploadJobsFiles
    /\ up_request = NoRequest
    /\ up_calls = <<>>
    /\ up_skills = <<>>
    /\ up_matched = <<>>
    /\ up_proficiency = <<>>
    /\ up_job = NoResult
    /\ up_expanded = ""
    /\ up_job_match = NoResult
    /\ up_response = NoResponse

\* the handler returns: an error of the status, or resume_data
Respond(status, data) ==
    /\ up_response' = [status |-> status, data |-> data]
    /\ up_pc' = "waiting"

\* lines 625-653: the request arrives and its file is read
ReceiveUpload ==
    /\ up_pc = "waiting"
    /\ \E request \in UploadRequests :
           /\ up_request' = request
           /\ IF request.kind = "resume"
              THEN up_pc' = "extract" /\ up_response' = NoResponse
              ELSE Respond(400, NoResult)
    /\ up_calls' = <<>>
    /\ up_skills' = <<>>
    /\ up_matched' = <<>>
    /\ up_proficiency' = <<>>
    /\ up_job' = NoResult
    /\ up_expanded' = ""
    /\ up_job_match' = NoResult
    /\ UNCHANGED up_jobs_file
    /\ UNCHANGED notUploadVars

\* lines 655-692: the skills of the service and of the patterns
ExtractSkills ==
    /\ up_pc = "extract"
    /\ \E response \in ExtractResponses :
           /\ up_calls' = IssueCall(up_calls, "extract", response)
           /\ up_skills' = CombinedSkills(extract_skills_with_openai(response), up_request.pattern_skills)
    /\ IF up_skills' = <<>>
       THEN Respond(400, NoResult)
       ELSE up_pc' = "match" /\ UNCHANGED up_response
    /\ UNCHANGED <<up_jobs_file, up_request, up_matched, up_proficiency, up_job, up_expanded, up_job_match>>
    /\ UNCHANGED notUploadVars

\* lines 694-714: the match to the roadmap, then the selected job
MatchSkills ==
    /\ up_pc = "match"
    /\ \E response \in MatchResponses :
           /\ up_calls' = IssueCall(up_calls, "match", response)
           /\ up_matched' = match_skills_to_roadmap_ai(response)
    /\ IF up_request.selected_job_id = None
       THEN up_pc' = "proficiency" /\ up_job' = NoResult /\ UNCHANGED up_response
       ELSE IF int(up_request.selected_job_id).status = "raise"
            THEN Respond(500, NoResult) /\ up_job' = NoResult
            ELSE /\ up_job' = get_job_by_index(up_jobs_file, int(up_request.selected_job_id).value)
                 /\ up_pc' = IF up_job'.status = "ok" THEN "expand" ELSE "proficiency"
                 /\ UNCHANGED up_response
    /\ UNCHANGED <<up_jobs_file, up_request, up_skills, up_proficiency, up_expanded, up_job_match>>
    /\ UNCHANGED notUploadVars

\* lines 715-724: the description of the selected job is expanded
ExpandJob ==
    /\ up_pc = "expand"
    /\ \E response \in ExpandResponses :
           /\ up_calls' = IssueCall(up_calls, "expand", response)
           /\ up_job' = Ok([up_job.value EXCEPT !.expanded_description =
                               expand_job_description(up_job.value.job_description, response)])
    /\ up_pc' = "proficiency"
    /\ UNCHANGED <<up_jobs_file, up_request, up_skills, up_matched, up_proficiency, up_expanded,
                   up_job_match, up_response>>
    /\ UNCHANGED notUploadVars

\* the job compare_resume_to_job_ai reads again from the file (lines 1016-1023)
JobToCompare ==
    IF up_request.selected_job_id = None THEN NoResult
    ELSE get_job_by_index(up_jobs_file, int(up_request.selected_job_id).value)

\* lines 726-772 and 1016-1027: the proficiency of the skills, then the start of the
\* comparison with the selected job
CalculateProficiency ==
    /\ up_pc = "proficiency"
    /\ \E response \in ProficiencyResponses :
           /\ up_calls' = IssueCall(up_calls, "proficiency", response)
           /\ up_proficiency' = calculate_skill_proficiency(up_skills, response)
    /\ up_matched' = WithProficiency(up_matched, up_proficiency')
    /\ IF JobToCompare.status # "ok" THEN up_pc' = "save" /\ up_expanded' = ""
       ELSE IF JobToCompare.value.skills = <<>> THEN up_pc' = "save" /\ up_expanded' = ""
       ELSE IF JobToCompare.value.expanded_description = ""
            THEN up_pc' = "compare_expand" /\ up_expanded' = ""
            ELSE up_pc' = "compare" /\ up_expanded' = JobToCompare.value.expanded_description
    /\ UNCHANGED <<up_jobs_file, up_request, up_skills, up_job, up_job_match, up_response>>
    /\ UNCHANGED notUploadVars

\* lines 1028-1035: the job read again has no expanded description, so it is expanded
CompareExpand ==
    /\ up_pc = "compare_expand"
    /\ \E response \in ExpandResponses :
           /\ up_calls' = IssueCall(up_calls, "expand", response)
           /\ up_expanded' = expand_job_description(JobToCompare.value.job_description, response)
    /\ up_pc' = "compare"
    /\ UNCHANGED <<up_jobs_file, up_request, up_skills, up_matched, up_proficiency, up_job, up_job_match,
                   up_response>>
    /\ UNCHANGED notUploadVars

\* lines 1037-1261: the comparison by the service
CompareJob ==
    /\ up_pc = "compare"
    /\ \E response \in CompareResponses :
           /\ up_calls' = IssueCall(up_calls, "compare", response)
           /\ up_job_match' = compare_resume_to_job_ai(up_matched, up_skills, JobToCompare.value,
                                                       up_expanded, response)
    /\ up_pc' = "save"
    /\ UNCHANGED <<up_jobs_file, up_request, up_skills, up_matched, up_proficiency, up_job, up_expanded,
                   up_response>>
    /\ UNCHANGED notUploadVars

\* resume_data (lines 781-801); job_match is NoResult where the key is absent
ResumeData ==
    [extracted_skills_raw |-> up_skills, matched_skills |-> up_matched,
     skills_with_proficiency |-> up_proficiency, total_skills_extracted |-> Len(up_skills),
     total_skills_matched |-> Len(up_matched), job_match |-> up_job_match]

\* lines 781-813: the entry is saved and returned, unless save_resume_data raises
SaveAndRespond ==
    /\ up_pc = "save"
    /\ \E saved \in BOOLEAN : IF saved THEN Respond(200, Ok(ResumeData)) ELSE Respond(500, NoResult)
    /\ UNCHANGED <<up_jobs_file, up_request, up_calls, up_skills, up_matched, up_proficiency, up_job,
                   up_expanded, up_job_match>>
    /\ UNCHANGED notUploadVars

UploadNext ==
    \/ ReceiveUpload
    \/ ExtractSkills
    \/ MatchSkills
    \/ ExpandJob
    \/ CalculateProficiency
    \/ CompareExpand
    \/ CompareJob
    \/ SaveAndRespond

SpecUpload == UploadInit /\ [][UploadNext]_vars

\* the job_match of the entry the last request stored and returned
StoredJobMatch == up_response.data.value.job_match

\* C14: the job_match an upload stores and returns is the result of the service, marked
\* ai_generated, or an error structure with an error and no skill, or absent; it is never
\* the result of the deprecated matcher compare_resume_to_job.
C14_NoKeywordFallback ==
    (up_response.status = 200 /\ StoredJobMatch.status = "ok") =>
        /\ \/ "ai_generated" \in DOMAIN StoredJobMatch.value /\ StoredJobMatch.value.ai_generated
           \/ "error" \in DOMAIN StoredJobMatch.value /\ StoredJobMatch.value.all_skills = <<>>
        /\ StoredJobMatch # compare_resume_to_job(up_matched, up_skills, JobToCompare.value)

\* an upload whose comparison failed or was malformed stored the error structure
C14_Witness ==
    /\ up_response.status = 200
    /\ StoredJobMatch.status = "ok"
    /\ "error" \in DOMAIN StoredJobMatch.value
    /\ StoredJobMatch.value.error = "AI comparison failed"
    /\ up_calls[Len(up_calls)] = "compare"

\* C16 as stated: one /upload request makes at most four calls of the LLM service.
C16_AtMostFourCalls == Len(up_calls) <= 4

\* C16, amended: one /upload request makes at most six calls of the LLM service, and
\* no call is made twice in a row.
C16_AtMostSixCalls ==
    /\ Len(up_calls) <= 6
    /\ \A i \in 1..(Len(up_calls) - 1) : up_calls[i] # up_calls[i + 1]

\* a request answered after six calls, of which some failed
C16_Witness ==
    /\ up_pc = "waiting"
    /\ up_response.status = 200
    /\ up_calls = <<"extract", "match", "expand", "proficiency", "expand", "compare">>
    /\ StoredJobMatch.status = "ok"
    /\ "error" \in DOMAIN StoredJobMatch.value

(***************************************************************************)
(* SpecResumeLog: the log of resumes.  The server of app.run answers each  *)
(* request in a thread of its own, and save_resume_data takes no lock.     *)
(* A resume is named by its number of arrival.                             *)
(***************************************************************************)

MaxUploads == 3

Threads == 1..2

\* the log file with these resumes
LogOf(resumes) == [exists |-> TRUE, parses |-> TRUE, resumes |-> resumes]

\* the log file after open(.., 'w'), and after a dump that raised: no JSON document
TruncatedLog == [exists |-> TRUE, parses |-> FALSE, resumes |-> <<>>]

\* load_existing_resumes (lines 590-599): the resumes of the file, and none where the
\* file does not exist or json.load raises
load_existing_resumes(file) == IF file.exists /\ file.parses THEN file.resumes ELSE <<>>

LogInit ==
    /\ NotLogIdle
    /\ lg_file \in {NoLog, LogOf(<<>>)}
    /\ lg_pc = [t \in Threads |-> "serving"]
    /\ lg_data = [t \in Threads |-> <<>>]
    /\ lg_next = 0
    /\ lg_done = <<>>

\* upload_resume returns an error before save_resume_data (lines 625-692, 815-818)
RejectResume(t) ==
    /\ lg_pc[t] = "serving"
    /\ lg_next < MaxUploads
    /\ lg_next' = lg_next + 1
    /\ UNCHANGED <<lg_file, lg_pc, lg_data, lg_done>>
    /\ UNCHANGED notLogVars

\* the resume is processed; save_resume_data loads the log and appends the entry
\* (lines 604-607)
LoadAndAppend(t) ==
    /\ lg_pc[t] = "serving"
    /\ lg_next < MaxUploads
    /\ lg_next' = lg_next + 1
    /\ lg_data' = [lg_data EXCEPT ![t] = Append(load_existing_resumes(lg_file), lg_next')]
    /\ lg_pc' = [lg_pc EXCEPT ![t] = "loaded"]
    /\ UNCHANGED <<lg_file, lg_done>>
    /\ UNCHANGED notLogVars

\* open(OUTPUT_JSON_FILE, 'w') truncates the file (line 610)
OpenLog(t) ==
    /\ lg_pc[t] = "loaded"
    /\ lg_file' = TruncatedLog
    /\ lg_pc' = [lg_pc EXCEPT ![t] = "opened"]
    /\ UNCHANGED <<lg_data, lg_next, lg_done>>
    /\ UNCHANGED notLogVars

\* json.dump writes existing_data and the request is answered with success
\* (lines 611, 808-813)
DumpLog(t) ==
    /\ lg_pc[t] = "opened"
    /\ lg_file' = LogOf(lg_data[t])
    /\ lg_done' = Append(lg_done, lg_data[t][Len(lg_data[t])])
    /\ lg_pc' = [lg_pc EXCEPT ![t] = "serving"]
    /\ lg_data' = [lg_data EXCEPT ![t] = <<>>]
    /\ UNCHANGED lg_next
    /\ UNCHANGED notLogVars

\* json.dump raises, the disk being full: the file stays cut and the request is
\* answered with an error (lines 815-818)
DumpRaises(t) ==
    /\ lg_pc[t] = "opened"
    /\ lg_file' = TruncatedLog
    /\ lg_pc' = [lg_pc EXCEPT ![t] = "serving"]
    /\ lg_data' = [lg_data EXCEPT ![t] = <<>>]
    /\ UNCHANGED <<lg_next, lg_done>>
    /\ UNCHANGED notLogVars

LogNext ==
    \E t \in Threads :
        \/ RejectResume(t)
        \/ LoadAndAppend(t)
        \/ OpenLog(t)
        \/ DumpLog(t)
        \/ DumpRaises(t)

SpecResumeLog == LogInit /\ [][LogNext]_vars

\* C15: once the uploads have returned, the log holds one entry for every resume that
\* was processed successfully, in the order of processing, whatever the log file held
\* when an upload ran.
C15_AppendOnly ==
    (\A t \in Threads : lg_pc[t] = "serving") /\ lg_done # <<>> =>
        /\ lg_file.exists /\ lg_file.parses
        /\ lg_file.resumes = lg_done

(***************************************************************************)
(* SpecRoadmapCache: the roadmap data of the server.  The file of the      *)
(* pipeline is named by its version, 0 where it does not exist or does not *)
(* parse; a value of version 0 is the result without skills.               *)
(***************************************************************************)

MaxRequests == 3

RoadmapVersions == 0..2

\* extract_roadmap_skill_list (lines 159-219): the value returned, the cache left, and
\* whether the file was opened; the cache is 0 where it is None
extract_roadmap_skill_list(cache, file) ==
    IF cache # 0 THEN [value |-> cache, cache |-> cache, read |-> FALSE]
    ELSE IF file # 0 THEN [value |-> file, cache |-> file, read |-> TRUE]
    ELSE [value |-> 0, cache |-> 0, read |-> TRUE]

\* the module is imported (line 44): the cache is None and no file was opened
CacheInit ==
    /\ NotCacheIdle
    /\ rc_pc = "started"
    /\ rc_file \in RoadmapVersions
    /\ rc_cache = 0
    /\ rc_reads = <<>>
    /\ rc_returned = <<>>

\* app.run (line 1489)
StartServing ==
    /\ rc_pc = "started"
    /\ rc_pc' = "serving"
    /\ UNCHANGED <<rc_file, rc_cache, rc_reads, rc_returned>>
    /\ UNCHANGED notCacheVars

\* the pipeline writes the file anew, or the file is removed
ReplaceRoadmapFile ==
    /\ rc_pc # "started"
    /\ \E version \in RoadmapVersions \ {rc_file} : rc_file' = version
    /\ UNCHANGED <<rc_pc, rc_cache, rc_reads, rc_returned>>
    /\ UNCHANGED notCacheVars

\* one call of extract_roadmap_skill_list, after which the handler is at pc
CallRoadmapList(pc) ==
    LET call == extract_roadmap_skill_list(rc_cache, rc_file) IN
        /\ rc_cache' = call.cache
        /\ rc_reads' = IF call.read THEN Append(rc_reads, rc_pc) ELSE rc_reads
        /\ rc_returned' = Append(rc_returned, call.value)
        /\ rc_pc' = pc
        /\ UNCHANGED rc_file
        /\ UNCHANGED notCacheVars

\* extract_skills_with_openai asks for the roadmap data (line 304)
RoadmapForExtraction ==
    /\ rc_pc = "serving"
    /\ Len(rc_returned) < 2 * MaxRequests
    /\ CallRoadmapList("extracted")

\* upload_resume asks for it again for the match (line 695)
RoadmapForMatching ==
    /\ rc_pc = "extracted"
    /\ CallRoadmapList("serving")

\* no skill was extracted and the request is answered with an error (lines 685-692)
NoSkillsFound ==
    /\ rc_pc = "extracted"
    /\ rc_pc' = "serving"
    /\ UNCHANGED <<rc_file, rc_cache, rc_reads, rc_returned>>
    /\ UNCHANGED notCacheVars

CacheNext ==
    \/ StartServing
    \/ ReplaceRoadmapFile
    \/ RoadmapForExtraction
    \/ RoadmapForMatching
    \/ NoSkillsFound

SpecRoadmapCache == CacheInit /\ [][CacheNext]_vars

\* C17: the roadmap file is read once, at the start of the process and not while a
\* request is served, and every request is given the same value.
C17_ReadOnceAtStart ==
    /\ Len(rc_reads) <= 1
    /\ \A i \in 1..Len(rc_reads) : rc_reads[i] = "started"
    /\ \A i, j \in 1..Len(rc_returned) : rc_returned[i] = rc_returned[j]

(***************************************************************************)
(* SpecCategories: pass 1 of the Domain Restructurer on the Cleaner output *)
(* of one role with one skill.                                             *)
(***************************************************************************)

PlacedRolePool ==
    {"Frontend", "React Native", "Android", "Machine Learning", "DevOps", "Rust", "Java",
     "Game Developer", "UX Design", "Blockchain", "Product Manager", "Zig", "Redis", "Kotlin",
     "Computer Science", "Data Structures and Algorithms"}

PlacedSkillPool ==
    {"Overview", "Mentoring", "React Hooks", "Unit Testing", "Linux Kernel", "Goroutines"}

CategoryInit ==
    /\ NotCategoryIdle
    /\ ct_pc = "start"
    /\ \E role_name \in PlacedRolePool, skill_text \in PlacedSkillPool :
           ct_input = clean_roadmaps(<<[role_name |-> role_name,
                                        skill |-> [section_name |-> "main",
                                                   skill_text |-> skill_text, links |-> <<>>]]>>)
    /\ ct_output = <<>>

\* restructure_to_domains(INPUT_FILE, OUTPUT_FILE) of restructure_domains.py
PlaceRole ==
    /\ ct_pc = "start"
    /\ ct_output' = restructure_to_domains(ct_input)
    /\ ct_pc' = "placed"
    /\ UNCHANGED ct_input
    /\ UNCHANGED notCategoryVars

CategoryNext == PlaceRole

SpecCategories == CategoryInit /\ [][CategoryNext]_vars

\* the keywords of the categories of a domain
CategoryKeywords(domain) ==
    UNION {UNION {Range(CATEGORY_MAPPINGS[i].categories[c].keywords) :
                     c \in 1..Len(CATEGORY_MAPPINGS[i].categories)} :
              i \in {i \in 1..Len(CATEGORY_MAPPINGS) : CATEGORY_MAPPINGS[i].domain = domain}}

\* no keyword of the categories of the domain is in the name of the skill or of its role
MatchesNoKeyword(skill_name, role_name, domain) ==
    \A keyword \in CategoryKeywords(domain) :
        /\ ~contains(lower(skill_name), lower(keyword))
        /\ ~contains(lower(role_name), lower(keyword))

\* the subskills of the pass-1 output: domain, category, position
PlacedAt ==
    UNION {UNION {{<<d, c, p>> : p \in 1..Len(ct_output[d].skills[c].subskills)} :
                     c \in 1..Len(ct_output[d].skills)} :
              d \in 1..Len(ct_output)}

\* C21: a skill that matches no category keyword of its domain is in the default
\* category of that domain as default_categories names it, the catch-all domain
\* 'Specialized Tools & Frameworks' with 'Tools & Frameworks' included.
C21_DefaultCategory ==
    ct_pc = "placed" =>
        \A place \in PlacedAt :
            LET domain == ct_output[place[1]].umbrella
                group == ct_output[place[1]].skills[place[2]]
            IN  MatchesNoKeyword(group.subskills[place[3]].name, ct_input[1].role, domain) =>
                    group.category = DefaultCategory(domain)

\* the domains whose configured roles hold the name of the role, whatever the case
DomainsListing(role_name) ==
    {DOMAIN_MAPPINGS[i].domain : i \in {i \in 1..Len(DOMAIN_MAPPINGS) :
        \E m \in Range(DOMAIN_MAPPINGS[i].roles) : lower(m) = lower(role_name)}}

\* C27: a role whose name is, whatever the case, an entry of the role list of some
\* domain is placed in a domain that lists it.
C27_ExactRoleMatchWins ==
    ct_pc = "placed" =>
        \A d \in 1..Len(ct_output) :
            DomainsListing(ct_input[1].role) # {} =>
                ct_output[d].umbrella \in DomainsListing(ct_input[1].role)

(***************************************************************************)
(* The domain pass 2 gives a skill.                                        *)
(***************************************************************************)
\* the skills pass 2 reads: the subskills of the pass-1 output
Pass2Skills == Range(AllSubskills(dm_pass1))

\* how many keywords of the i-th roadmap domain are in the name and keywords of the skill
KeywordCount(skill, i) ==
    Cardinality({k \in 1..Len(ROADMAP_DOMAINS[i].keywords) :
        contains(lower(join(" ", <<skill.name>> \o skill.keywords)),
                 lower(ROADMAP_DOMAINS[i].keywords[k]))})

\* the first declared domain among those of the greatest value
FirstGreatest(value) ==
    ROADMAP_DOMAINS[CHOOSE i \in 1..Len(ROADMAP_DOMAINS) :
                        /\ \A j \in 1..Len(ROADMAP_DOMAINS) : value[j] <= value[i]
                        /\ \A j \in 1..(i - 1) : value[j] # value[i]].domain

\* the domain the rule of three steps names for the skill
RuledDomain(skill) ==
    LET scores == DomainScores(skill.name, skill.keywords, skill.links)
        counts == <<>> \o [i \in 1..Len(ROADMAP_DOMAINS) |-> KeywordCount(skill, i)]
    IN  IF \E i \in 1..Len(scores) : scores[i] > 0 THEN FirstGreatest(scores)
        ELSE IF \E i \in 1..Len(counts) : counts[i] > 0 THEN FirstGreatest(counts)
        ELSE "Frontend Developer"

\* the domains of the pass-2 output with a record of the skill_id
DomainsHolding(skill) == {dm_pass2[place[1]].domain : place \in PlacesOf(skill)}

\* C22: every skill pass 2 reads is in one domain only, the one the rule names: the
\* domain of the best score if some score is positive, else the first declared domain
\* with the most keywords in the name and keywords of the skill, else
\* 'Frontend Developer'.  A skill merged into the record of another skill of its
\* domain is in that domain by that record.
C22_OneDomainPerSkill ==
    dm_pc = "pass2" =>
        \A skill \in Pass2Skills :
            /\ DomainsHolding(skill) \subseteq {RuledDomain(skill)}
            /\ Cardinality(PlacesOf(skill)) <= 1
            /\ \E place \in Pass2Places :
                   /\ dm_pass2[place[1]].domain = RuledDomain(skill)
                   /\ BaseKey(SubskillAt(place).name) = BaseKey(skill.name)
                   /\ Range(skill.keywords) \subseteq Range(SubskillAt(place).keywords)

\* a skill without a positive score, placed by the count of keywords in the first
\* declared of two domains with the same count
C22_Witness ==
    /\ dm_pc = "pass2"
    /\ \E skill \in Pass2Skills :
           /\ find_best_roadmap_domain(skill.name, skill.keywords, skill.links) = None
           /\ \E i, j \in 1..Len(ROADMAP_DOMAINS) :
                  /\ i < j
                  /\ KeywordCount(skill, i) > 0
                  /\ KeywordCount(skill, i) = KeywordCount(skill, j)
                  /\ ROADMAP_DOMAINS[i].domain = RuledDomain(skill)
           /\ DomainsHolding(skill) = {RuledDomain(skill)}


(***************************************************************************)
(* The records of merge_similar_skills.                                    *)
(***************************************************************************)
\* the positions of the input skills with the merge key of the name
MergeGroup(name) == {i \in 1..Len(mg_skills) : BaseKey(mg_skills[i].name) = BaseKey(name)}

\* C23: a record of merge_similar_skills holds the keywords of all skills of its
\* merge key and their links, each once, the longest of their names (the first seen
\* of the longest), and the skill_id of the first of them; there is one record for
\* each merge key of the input.
C23_MergedRecord ==
    mg_pc = "merged" =>
        /\ Len(mg_merged) = Cardinality({BaseKey(mg_skills[i].name) : i \in 1..Len(mg_skills)})
        /\ \A r, q \in 1..Len(mg_merged) :
               r # q => BaseKey(mg_merged[r].name) # BaseKey(mg_merged[q].name)
        /\ \A r \in 1..Len(mg_merged) :
               LET group == MergeGroup(mg_merged[r].name)
                   first == CHOOSE i \in group : \A j \in group : i <= j
               IN  /\ Range(mg_merged[r].keywords)
                          = UNION {Range(mg_skills[i].keywords) : i \in group}
                   /\ \A a, b \in 1..Len(mg_merged[r].keywords) :
                          a # b => mg_merged[r].keywords[a] # mg_merged[r].keywords[b]
                   /\ mg_merged[r].links = UNION {Range(mg_skills[i].links) : i \in group}
                   /\ \E i \in group :
                          /\ mg_merged[r].name = mg_skills[i].name
                          /\ \A j \in group : Len(mg_skills[j].name) <= Len(mg_skills[i].name)
                          /\ \A j \in group :
                                 j < i => Len(mg_skills[j].name) < Len(mg_skills[i].name)
                   /\ mg_merged[r].skill_id = mg_skills[first].skill_id

\* two skills of one key with names equally long, and a skill of another key
C23_Witness ==
    /\ mg_pc = "merged"
    /\ Len(mg_skills) = 3
    /\ mg_skills[1].name = "react hooks state"
    /\ mg_skills[2].name = "docker"
    /\ mg_skills[3].name = "react hooks store"
    /\ Len(mg_merged) = 2
    /\ mg_merged[1].name = "react hooks state"
    /\ mg_merged[1].skill_id = "react-hooks-state"
    /\ Cardinality(mg_merged[1].links) = 3

(***************************************************************************)
(* SpecSkillName: extract_skill_from_name on the skill texts of one role,  *)
(* with the keywords create_role_skill_structure gives it (the words of    *)
(* the text longer than two characters).                                   *)
(***************************************************************************)

\* every synonym of the table as a skill text of its own
RECURSIVE TermTexts(_)
TermTexts(table) ==
    IF table = <<>> THEN <<>> ELSE Head(table).terms \o TermTexts(Tail(table))

\* skill texts with several synonyms, and skill texts with none
MoreSkillTexts ==
    <<"Spring Boot Starter", "Learn Flutter Basics", "Laravel with PHP", "Dart and Flutter",
      "React Native Navigation", "Machine Learning Course", "Postgres Indexes", "Node Basics",
      "aspnet", "machine-learning", "Learn Testing Basics", "ci-cd pipelines", "Zig",
      "How to Cook", "Vue", "Express Routing", "Introduction to Caching", "tutorial">>

SkillTexts == TermTexts(TECH_SKILLS) \o MoreSkillTexts

SkillNameRoles == {"", "QA", "Backend Developer"}

SkillNameInit ==
    /\ NotSkillNameIdle
    /\ sn_pc = "naming"
    /\ sn_role \in SkillNameRoles
    /\ sn_next = 1
    /\ sn_name = ""
    /\ sn_skill = ""
    /\ sn_returned = {}

\* lines 266-283 for one skill: main_skill = extract_skill_from_name(skill_text, keywords, role_name)
NameSkill ==
    /\ sn_pc = "naming"
    /\ sn_next <= Len(SkillTexts)
    /\ sn_name' = SkillTexts[sn_next]
    /\ sn_skill' = extract_skill_from_name(SkillTexts[sn_next],
                                           SelectSeq(split(lower(SkillTexts[sn_next])), LongWord),
                                           sn_role)
    /\ sn_returned' = sn_returned \cup {sn_skill'}
    /\ sn_next' = sn_next + 1
    /\ UNCHANGED <<sn_pc, sn_role>>
    /\ UNCHANGED notSkillNameVars

\* the skills of the role are through
AllNamed ==
    /\ sn_pc = "naming"
    /\ sn_next > Len(SkillTexts)
    /\ sn_pc' = "done"
    /\ UNCHANGED <<sn_role, sn_next, sn_name, sn_skill, sn_returned>>
    /\ UNCHANGED notSkillNameVars

SkillNameNext == NameSkill \/ AllNamed

SpecSkillName == SkillNameInit /\ [][SkillNameNext]_vars

\* the combined text of the skill named last
NamedText ==
    lower(sn_name \o " " \o join(" ", SelectSeq(split(lower(sn_name)), LongWord)) \o " " \o sn_role)

\* the length of the longest synonym of the k-th key in the text, 0 for none
LongestSynonym(k, text) ==
    LET lengths == {Len(TECH_SKILLS[k].terms[t]) :
                       t \in {t \in 1..Len(TECH_SKILLS[k].terms) :
                                 contains(text, TECH_SKILLS[k].terms[t])}}
    IN  IF lengths = {} THEN 0 ELSE CHOOSE n \in lengths : \A m \in lengths : m <= n

\* the first declared key among those of the longest synonym in the text
KeyOfLongestSynonym(text) ==
    TECH_SKILLS[CHOOSE k \in 1..Len(TECH_SKILLS) :
                    /\ \A j \in 1..Len(TECH_SKILLS) : LongestSynonym(j, text) <= LongestSynonym(k, text)
                    /\ \A j \in 1..(k - 1) : LongestSynonym(j, text) < LongestSynonym(k, text)].key

SynonymFound(text) == \E k \in 1..Len(TECH_SKILLS) : LongestSynonym(k, text) > 0

\* the words of the skill text in lower case, without its leading and trailing filler
CleanedWords(name) == split(StripNameSuffix(StripNamePrefix(lower(name))))

\* C24 as stated: the key of the longest synonym in the combined text, the first
\* declared on ties; without any synonym, the first word of the cleaned skill text,
\* title-cased.
C24_FirstWordTitleCased ==
    (sn_next > 1 /\ CleanedWords(sn_name) # <<>>) =>
        sn_skill = IF SynonymFound(NamedText) THEN KeyOfLongestSynonym(NamedText)
                   ELSE title(CleanedWords(sn_name)[1])

\* C24, amended: without any synonym the first word of the cleaned skill text is
\* returned as it is when it is a technology key or one of nine names of
\* technologies, and else title-cased with its hyphens turned into spaces.
C24_LongestSynonymOrFirstWord ==
    (sn_next > 1 /\ CleanedWords(sn_name) # <<>>) =>
        sn_skill =
            IF SynonymFound(NamedText) THEN KeyOfLongestSynonym(NamedText)
            ELSE IF \E k \in 1..Len(TECH_SKILLS) : TECH_SKILLS[k].key = CleanedWords(sn_name)[1]
            THEN CleanedWords(sn_name)[1]
            ELSE IF CleanedWords(sn_name)[1] \in {"react", "vue", "angular", "node", "express",
                                                 "mongodb", "redis", "docker", "kubernetes"}
            THEN CleanedWords(sn_name)[1]
            ELSE title(replace(CleanedWords(sn_name)[1], "-", " "))

\* a skill text without synonym whose first word is returned in lower case
C24_Witness ==
    /\ sn_name = "Node Basics"
    /\ ~SynonymFound(NamedText)
    /\ sn_skill = "node"

\* C28: every key of the table is returned for some skill text.
C28_EveryKeySelectable ==
    sn_pc = "done" =>
        \A k \in 1..Len(TECH_SKILLS) : TECH_SKILLS[k].key \in sn_returned

(***************************************************************************)
(* SpecResourceType: the resource that lines 297-338 make of one link of   *)
(* a skill, given the source file of the role.                             *)
(***************************************************************************)

ResourceLinkUrls ==
    {"https://docs.x.com/course", "https://youtube.com/course/1", "https://x.com/book.pdf",
     "https://spotify.com/blog/1", "https://medium.com/official", "https://github.com/a/b",
     "https://x.com/page", "https://a.io/sql"}

ResourceLinkTexts == {"", "Guide", "@video@Intro", "@Opensource@Repo", "@roadmap@Path", "Podcast on books"}

ResourceSkillNames == {"sql", "online course"}

ResourceSourceFiles ==
    { NoFile,
      [path |-> "backend.md", readable |-> TRUE,
       matches |-> <<TypedLink("feed", "SQL", "https://a.io/sql"),
                     TypedLink("podcast", "Page", "https://x.com/page")>>] }

ResourceTypeInit ==
    /\ NotResourceTypeIdle
    /\ rs_pc = "start"
    /\ rs_link \in {RawLink(text, href) : text \in ResourceLinkTexts, href \in ResourceLinkUrls}
    /\ rs_skill \in ResourceSkillNames
    /\ rs_file \in ResourceSourceFiles
    /\ rs_resource = <<>>

\* lines 304-338 for a link with a url
MakeResource ==
    /\ rs_pc = "start"
    /\ rs_resource' = ResourceOf(rs_link, rs_skill, rs_file)
    /\ rs_pc' = "typed"
    /\ UNCHANGED <<rs_link, rs_skill, rs_file>>
    /\ UNCHANGED notResourceTypeVars

ResourceTypeNext == MakeResource

SpecResourceType == ResourceTypeInit /\ [][ResourceTypeNext]_vars

\* the heuristics in their order: the type and the terms of each
TypeHeuristics ==
    <<[type |-> "documentation",
       terms |-> {"/docs/", "docs.", "documentation", "developer.mozilla.org", "docs.rs",
                  "pkg.go.dev", "api.", ".org/docs", ".com/docs"}],
      [type |-> "video",
       terms |-> {"youtube.com", "youtu.be", "watch?v=", "playlist", "/video/", "vimeo.com"}],
      [type |-> "course",
       terms |-> {"course", "udemy", "coursera", "edx", "pluralsight", "/learn/", "/tutorial/",
                  "codecademy"}],
      [type |-> "book", terms |-> {"book", ".pdf", "epub", "oreilly"}],
      [type |-> "podcast", terms |-> {"podcast", "soundcloud", "spotify", "apple.com/podcasts"}],
      [type |-> "article",
       terms |-> {"medium.com", "blog.", "/blog/", "dev.to", "hashnode", "article"}],
      [type |-> "official", terms |-> {"github.com", "official", ".org/", ".io/"}]>>

\* the heuristics that match the text
MatchingHeuristics(text) ==
    {i \in 1..Len(TypeHeuristics) : \E term \in TypeHeuristics[i].terms : contains(text, term)}

\* the type of the first heuristic that matches, article without any
FirstHeuristicType(text) ==
    IF MatchingHeuristics(text) = {} THEN "article"
    ELSE TypeHeuristics[CHOOSE i \in MatchingHeuristics(text) :
                            \A j \in MatchingHeuristics(text) : i <= j].type

\* the text that the heuristics look at: the url and the text of the link, or
\* the name of the skill for a link without text
HeuristicText(link_obj, skill_name) ==
    lower(link_obj.href) \o " " \o lower(IF link_obj.text = "" THEN skill_name ELSE link_obj.text)

\* the type of the table for an annotated tag, article for a tag that is not in it
TableType(tag) ==
    IF \E i \in 1..Len(type_mapping) : type_mapping[i].tag = lower(tag)
    THEN type_mapping[CHOOSE i \in 1..Len(type_mapping) : type_mapping[i].tag = lower(tag)].type
    ELSE "article"

\* the type a link is annotated with, in its text or else in the source file;
\* None without annotation
ExplicitType(link_obj, source_file) ==
    IF FirstTypeTag(link_obj.text) # None THEN TableType(FirstTypeTag(link_obj.text))
    ELSE IF source_file # NoFile THEN AnnotatedType(source_file, link_obj.href)
    ELSE None

ResourceTypes == {"documentation", "article", "video", "course", "book", "podcast", "official"}

\* C25: a resource without annotation has the type of the first heuristic that
\* matches, in the order documentation, video, course, book, podcast, article,
\* official, and article when none does; an annotated resource has the type
\* that the table gives its annotation, whatever the heuristics say; every type
\* is one of the seven.
C25_TypeOfResource ==
    rs_pc = "typed" =>
        /\ ExplicitType(rs_link, rs_file) = None =>
               rs_resource.type = FirstHeuristicType(HeuristicText(rs_link, rs_skill))
        /\ ExplicitType(rs_link, rs_file) # None =>
               rs_resource.type = ExplicitType(rs_link, rs_file)
        /\ rs_resource.type \in ResourceTypes

\* a resource without annotation that two heuristics match, typed by the first
C25_Witness ==
    /\ rs_pc = "typed"
    /\ ExplicitType(rs_link, rs_file) = None
    /\ {1, 3} \subseteq MatchingHeuristics(HeuristicText(rs_link, rs_skill))
    /\ rs_resource.type = "documentation"

(***************************************************************************)
(* The links of nested list items in the Extractor's output.               *)
(***************************************************************************)
\* the hrefs of the links that parse_list_item gives an item of these children
ItemHrefs(children, base_dir, commit) ==
    LET skill_data == parse_list_item(Li(children), base_dir, commit) IN
    IF skill_data.status = "ok" THEN {link.href : link \in Range(skill_data.value.links)} ELSE {}

\* the children of an item without its nested lists
DirectChildren(li) == SelectSeq(li.children, LAMBDA c : c.kind # "ul")

\* the hrefs of the links inside the nested items of an item
NestedHrefs(li, base_dir, commit) ==
    UNION { UNION { ItemHrefs(nested.children, base_dir, commit) :
                        nested \in Range(li.children[k].items) } :
                k \in ListChildren(li) }

\* the items of a list and of the lists nested in them
RECURSIVE AllItems(_)
AllItems(items) ==
    Range(items) \cup
    UNION { UNION { AllItems(items[i].children[k].items) : k \in ListChildren(items[i]) } :
                i \in 1..Len(items) }

\* the list items of the roadmap files of the run that were parsed, each with
\* the directory of its file
ItemsOfRun ==
    UNION { UNION { {[li |-> li, dir |-> md_files[i].dir] :
                         li \in AllItems(md_files[i].blocks[b].items)} :
                        b \in {b \in 1..Len(md_files[i].blocks) : md_files[i].blocks[b].kind = "ul"} } :
                i \in {i \in 1..Len(md_files) :
                          /\ Last(md_files[i].dir) # "content"
                          /\ GivesSkills(md_files[i])} }

\* C26: in the output of a run no entry of a list item holds a link that occurs
\* only inside the nested items of that list item: each link belongs to the
\* entry of the item that directly contains it.
C26_LinksOfOwnItemOnly ==
    ex_pc = "done" =>
        \A it \in ItemsOfRun :
            parse_list_item(it.li, it.dir, commit_hash).status = "ok" =>
                \A skill \in OutputSkills :
                    skill.skill_text = parse_list_item(it.li, it.dir, commit_hash).value.skill_text =>
                        {link.href : link \in Range(skill.links)}
                            \cap (NestedHrefs(it.li, it.dir, commit_hash)
                                      \ ItemHrefs(DirectChildren(it.li), it.dir, commit_hash)) = {}

(***************************************************************************)
(* The size of the output of the job processor.                            *)
(***************************************************************************)
\* how many jobs of the output carry the title
OutputJobsTitled(job_title) ==
    Cardinality({j \in 1..Len(jb_output.jobs) : jb_output.jobs[j].job_title = job_title})

\* how many postings of the source carry the title, once cleaned
PostingsTitled(source, job_title) ==
    Cardinality({i \in 1..Len(source.rows) : clean_text(source.rows[i].title) = job_title})

\* C29: a run with --limit N (N at least 1) writes at most N jobs, and no job
\* more often than the database and the CSV file of the run hold it.
C29_AtMostLimitJobs ==
    (jb_pc = "written" /\ jb_limit >= 1) =>
        /\ Len(jb_output.jobs) <= jb_limit
        /\ \A j \in 1..Len(jb_output.jobs) :
               OutputJobsTitled(jb_output.jobs[j].job_title)
                   <= PostingsTitled(jb_db, jb_output.jobs[j].job_title)
                      + PostingsTitled(jb_csv, jb_output.jobs[j].job_title)

(***************************************************************************)
(* Two uploads of the log at the same time.                                *)
(***************************************************************************)
\* C30: when two uploads have been received, both were answered with success
\* and no request is in progress, the log holds the entries of both, also when
\* the two were processed at the same time.
C30_BothEntriesKept ==
    (/\ \A t \in Threads : lg_pc[t] = "serving"
     /\ lg_next = 2
     /\ Len(lg_done) = 2) =>
        /\ lg_file.exists /\ lg_file.parses
        /\ \A i \in 1..2 : \E k \in 1..Len(lg_file.resumes) : lg_file.resumes[k] = lg_done[i]

=============================================================================
